---- MODULE Spec2Model ----
(***************************************************************************)
(* Topic navigation and streaming generation of the "infinite wiki" client *)
(* (src/App.tsx, lines 1204-1812, with the useTopicHistory hook of          *)
(* src/unnamed/part_000 and the generators of                              *)
(* src/services/openRouterService.ts).                                     *)
(*                                                                         *)
(* One step of the model is one task of the browser's event loop: a user   *)
(* event or the arrival of one stream event, the state updates its handler *)
(* makes, and React's render of the new state with the effects that render *)
(* fires (Flush).  An effect reads the state of the render that fired it   *)
(* (its closure), never the updates queued by the effects before it.       *)
(*                                                                         *)
(* Strings are sequences of one-character strings.  A streamed text delta  *)
(* is one atom naming the request that delivered it.                       *)
(***************************************************************************)
EXTENDS Integers, Sequences, FiniteSets, TLC

\* Bounds of the model.
MaxEpochs == 3      \* generation epochs started in one run (mount starts two)
MaxChunks == 1      \* text deltas one content stream delivers
MaxArtChunks == 1   \* text deltas one art stream delivers
MaxModChunks == 1   \* text deltas one modify stream delivers
MaxModifies == 1    \* modify operations started in one run
MaxRq == 1          \* related-question requests in flight at once
MaxTopicLen == 23   \* longest topic handed to createFallbackArt
MaxClock == 2       \* last Date.now() reading of the hook-level runs
MaxListed == 3      \* entries of the root and children lists of the hook-level runs

\* JavaScript's null / undefined, and an optional value.
Null == <<>>
None == <<>>
Some(x) == <<x>>
IsSome(o) == o # <<>>
Val(o) == o[1]

\* ------------------------------------------------------------------ strings
Hypertext == <<"H", "y", "p", "e", "r", "t", "e", "x", "t">>
Balance == <<"B", "a", "l", "a", "n", "c", "e">>
Harmony == <<"H", "a", "r", "m", "o", "n", "y">>

\* The head of the curated list behind the random button.
UNIQUE_WORDS == <<Balance, Harmony>>

UpperCase == {"A", "B", "H"}
LowerOf(c) == CASE c = "A" -> "a" [] c = "B" -> "b" [] c = "H" -> "h" [] OTHER -> c
toLowerCase(s) == [i \in 1..Len(s) |-> IF s[i] \in UpperCase THEN LowerOf(s[i]) ELSE s[i]]

RECURSIVE trimStart(_)
trimStart(s) == IF s # <<>> /\ Head(s) = " " THEN trimStart(Tail(s)) ELSE s
RECURSIVE trimEnd(_)
trimEnd(s) == IF s # <<>> /\ s[Len(s)] = " " THEN trimEnd(SubSeq(s, 1, Len(s) - 1)) ELSE s
trim(s) == trimEnd(trimStart(s))

\* s.split('\n')
RECURSIVE splitLines(_)
splitLines(s) ==
    IF \E i \in DOMAIN s : s[i] = "\n"
    THEN LET i == CHOOSE j \in DOMAIN s : s[j] = "\n" /\ \A k \in 1..(j - 1) : s[k] # "\n"
         IN  <<SubSeq(s, 1, i - 1)>> \o splitLines(SubSeq(s, i + 1, Len(s)))
    ELSE <<s>>

\* The box-drawing characters of the fallback art (U+250C, U+2510, U+2514,
\* U+2518, U+2500, U+2502), one atom each.
TopLeft == "box-top-left"
TopRight == "box-top-right"
BottomLeft == "box-bottom-left"
BottomRight == "box-bottom-right"
Horizontal == "box-horizontal"
Vertical == "box-vertical"

repeat(c, n) == [i \in 1..n |-> c]
\* String.prototype.substring(0, n)
substring0(s, n) == SubSeq(s, 1, IF n < Len(s) THEN n ELSE Len(s))

FallbackTruncateAt == 20
FallbackKeep == 17

createFallbackArtMutant(topic) ==
    LET displayableTopic == IF Len(topic) > FallbackTruncateAt
                            THEN substring0(topic, FallbackTruncateAt) \o <<".", ".", ".">>
                            ELSE topic
        paddedTopic == <<" ">> \o displayableTopic \o <<" ">>
        topBorder == <<TopLeft>> \o repeat(Horizontal, Len(paddedTopic)) \o <<TopRight>>
        middle == <<Vertical>> \o paddedTopic \o <<Vertical>>
        bottomBorder == <<BottomLeft>> \o repeat(Horizontal, Len(paddedTopic)) \o <<BottomRight>>
    IN [art |-> topBorder \o <<"\n">> \o middle \o <<"\n">> \o bottomBorder]

createFallbackArt(topic) ==
    LET displayableTopic == IF Len(topic) > FallbackTruncateAt
                            THEN substring0(topic, FallbackKeep) \o <<".", ".", ".">>
                            ELSE topic
        paddedTopic == <<" ">> \o displayableTopic \o <<" ">>
        topBorder == <<TopLeft>> \o repeat(Horizontal, Len(paddedTopic)) \o <<TopRight>>
        middle == <<Vertical>> \o paddedTopic \o <<Vertical>>
        bottomBorder == <<BottomLeft>> \o repeat(Horizontal, Len(paddedTopic)) \o <<BottomRight>>
    IN [art |-> topBorder \o <<"\n">> \o middle \o <<"\n">> \o bottomBorder]

\* ------------------------------------------------------------ streamed text
\* The k-th text delta of the content stream, of the art stream, of generation
\* epoch e, and of modify stream m.  The responses chosen: the first delta of
\* a text stream carries markdown emphasis, which the page renders as a
\* clickable word and extractClickableWords collects; the later ones are
\* plain text.
marked(k) == k = 1
Delta(e, k) ==
    <<(IF marked(k) THEN "**gen" ELSE "gen") \o ToString(e) \o "." \o ToString(k)>>
ArtDelta(e, k) == <<"art" \o ToString(e) \o "." \o ToString(k)>>
ModDelta(m, k) ==
    <<(IF marked(k) THEN "**mod" ELSE "mod") \o ToString(m) \o "." \o ToString(k)>>

EpochAtoms(e) == {Delta(e, k)[1] : k \in 1..MaxChunks}
ArtAtoms(e) == {ArtDelta(e, k)[1] : k \in 1..MaxArtChunks}
ModifyAtoms(m) == {ModDelta(m, k)[1] : k \in 1..MaxModChunks}
MarkedAtoms ==
    {Delta(e, k)[1] : e \in 1..MaxEpochs, k \in {j \in 1..MaxChunks : marked(j)}}
        \cup {ModDelta(m, k)[1] : m \in 1..MaxModifies, k \in {j \in 1..MaxModChunks : marked(j)}}

Range(f) == {f[i] : i \in DOMAIN f}

\* Every character of the cards' titles and contents.
CardAtoms(cs) ==
    UNION {Range(cs[i].title) \cup Range(cs[i].content) : i \in DOMAIN cs}

extractClickableWords(cs) == CardAtoms(cs) \cap MarkedAtoms

\* ------------------------------------------------------------------- cards
EmptyCard == [title |-> <<>>, content |-> <<>>]

\* The updater with the first card as the one to work on.
foldChunkFirstCard(prev, chunk) ==
    LET newCards == IF Len(prev) = 0 THEN <<EmptyCard>> ELSE prev
        currentCardIndex == 1
    IN  CASE chunk.type = "title" ->
               [newCards EXCEPT ![currentCardIndex].title = chunk.value]
          [] chunk.type = "content" ->
               [newCards EXCEPT ![currentCardIndex].content = @ \o chunk.value]
          [] OTHER -> Append(newCards, EmptyCard)

\* The setCards updater of the generation's handleChunk.
foldChunk(prev, chunk) ==
    LET newCards == IF Len(prev) = 0 THEN <<EmptyCard>> ELSE prev
        currentCardIndex == Len(newCards)
    IN  CASE chunk.type = "title" ->
               [newCards EXCEPT ![currentCardIndex].title = chunk.value]
          [] chunk.type = "content" ->
               [newCards EXCEPT ![currentCardIndex].content = @ \o chunk.value]
          [] OTHER -> Append(newCards, EmptyCard)

\* The setCards updater of handleAIModify's handleChunk: no card is created
\* when the list is empty, so the index is -1 and a content chunk reads
\* undefined.content (a TypeError); a title chunk then sets a property the
\* array's length ignores.
modifyFoldThrows(prev, chunk) == Len(prev) = 0 /\ chunk.type = "content"

modifyFoldChunk(prev, chunk) ==
    LET currentCardIndex == Len(prev)
    IN  CASE chunk.type = "separator" -> Append(prev, EmptyCard)
          [] currentCardIndex = 0 -> prev
          [] chunk.type = "title" ->
               [prev EXCEPT ![currentCardIndex].title = chunk.value]
          [] OTHER -> [prev EXCEPT ![currentCardIndex].content = @ \o chunk.value]

\* ----------------------------------------------------------- topic history
\* A node id is `${topic}-${Date.now()}`: the topic and the clock reading.
NodeId(topic, t) == <<topic, t>>

NewNode(nodeId, topic, t, parentId) ==
    [id |-> nodeId, topic |-> topic, timestamp |-> t, parentId |-> parentId,
     children |-> <<>>, cachedCards |-> None, cachedAsciiArt |-> None,
     generationTime |-> None, totalInputWords |-> None, totalOutputWords |-> None]

\* Both Date.now() calls of addTopic read t.
addTopic(w, topic, parentId, t) ==
    LET nodeId == NodeId(topic, t)
        newNode == NewNode(nodeId, topic, t, parentId)
        added == (nodeId :> newNode) @@ w.nodes
        newNodes == IF parentId # Null /\ parentId \in DOMAIN added
                    THEN [added EXCEPT ![parentId].children = Append(@, nodeId)]
                    ELSE added
        newRootNodeIds == IF parentId = Null
                          THEN Append(w.rootNodeIds, nodeId)
                          ELSE w.rootNodeIds
    IN  [w EXCEPT !.nodes = newNodes,
                  !.currentNodeId = nodeId,
                  !.rootNodeIds = newRootNodeIds]

\* snap is the render whose closure the call uses: the check reads its nodes.
\* navigateToNode without the look-up of the node.
navigateToNodeUnchecked(snap, w, nodeId) == [w EXCEPT !.currentNodeId = nodeId]

navigateToNode(snap, w, nodeId) ==
    IF nodeId \in DOMAIN snap.nodes THEN [w EXCEPT !.currentNodeId = nodeId] ELSE w

getCurrentNode(w) ==
    IF w.currentNodeId # Null /\ w.currentNodeId \in DOMAIN w.nodes
    THEN Some(w.nodes[w.currentNodeId])
    ELSE None

RECURSIVE getNodePathFrom(_, _, _)
getNodePathFrom(w, currentId, path) ==
    IF currentId # Null /\ currentId \in DOMAIN w.nodes /\ Len(path) <= Cardinality(DOMAIN w.nodes)
    THEN getNodePathFrom(w, w.nodes[currentId].parentId, <<w.nodes[currentId]>> \o path)
    ELSE path

\* getNodePath with the walk stopped below the root.
getNodePathBelowRoot(w, nodeId) ==
    LET path == getNodePathFrom(w, nodeId, <<>>)
    IN  IF Len(path) > 1 THEN Tail(path) ELSE path

\* getNodePath with each ancestor pushed behind the node instead of unshifted.
getNodePathPushed(w, nodeId) ==
    LET path == getNodePathFrom(w, nodeId, <<>>)
    IN  [i \in 1..Len(path) |-> path[Len(path) + 1 - i]]

getNodePath(w, nodeId) == getNodePathFrom(w, nodeId, <<>>)

\* updateNodeContent with the new cards added behind the cached ones.
updateNodeContentAppending(w, nodeId, content) ==
    IF nodeId \in DOMAIN w.nodes
    THEN LET cached == w.nodes[nodeId].cachedCards
             merged == IF IsSome(cached) /\ IsSome(content.cards)
                       THEN Some(Val(cached) \o Val(content.cards))
                       ELSE content.cards
         IN  [w EXCEPT !.nodes[nodeId].cachedCards = merged,
                       !.nodes[nodeId].cachedAsciiArt = content.asciiArt,
                       !.nodes[nodeId].generationTime = content.generationTime,
                       !.nodes[nodeId].totalInputWords = content.totalInputWords,
                       !.nodes[nodeId].totalOutputWords = content.totalOutputWords]
    ELSE w

updateNodeContent(w, nodeId, content) ==
    IF nodeId \in DOMAIN w.nodes
    THEN [w EXCEPT !.nodes[nodeId].cachedCards = content.cards,
                   !.nodes[nodeId].cachedAsciiArt = content.asciiArt,
                   !.nodes[nodeId].generationTime = content.generationTime,
                   !.nodes[nodeId].totalInputWords = content.totalInputWords,
                   !.nodes[nodeId].totalOutputWords = content.totalOutputWords]
    ELSE w

\* The history of a render: the three fields of TopicHistoryState.
History(w) ==
    [nodes |-> w.nodes, currentNodeId |-> w.currentNodeId, rootNodeIds |-> w.rootNodeIds]

EmptyHistory == [nodes |-> <<>>, currentNodeId |-> Null, rootNodeIds |-> <<>>]

\* JSON text of an object, as the list of its members in insertion order.
\* JSON.stringify writes null (parentId of a root) and leaves out every member
\* whose value is undefined.
Member(key, value) == <<key, value>>
OptionalMember(key, field) == IF IsSome(field) THEN <<Member(key, Val(field))>> ELSE <<>>

stringifyNode(node) ==
    <<Member("id", node.id), Member("topic", node.topic),
      Member("timestamp", node.timestamp), Member("parentId", node.parentId),
      Member("children", node.children)>>
        \o OptionalMember("cachedCards", node.cachedCards)
        \o OptionalMember("cachedAsciiArt", node.cachedAsciiArt)
        \o OptionalMember("generationTime", node.generationTime)
        \o OptionalMember("totalInputWords", node.totalInputWords)
        \o OptionalMember("totalOutputWords", node.totalOutputWords)

JSONstringify(history) ==
    [nodes |-> [id \in DOMAIN history.nodes |-> stringifyNode(history.nodes[id])],
     currentNodeId |-> history.currentNodeId,
     rootNodeIds |-> history.rootNodeIds]

\* Reading a property of a parsed object: undefined when the text has no such
\* member.
HasMember(members, key) == \E i \in DOMAIN members : members[i][1] = key
GetMember(members, key) == members[CHOOSE i \in DOMAIN members : members[i][1] = key][2]
ReadOptional(members, key) ==
    IF HasMember(members, key) THEN Some(GetMember(members, key)) ELSE None

parseNode(members) ==
    [id |-> GetMember(members, "id"), topic |-> GetMember(members, "topic"),
     timestamp |-> GetMember(members, "timestamp"),
     parentId |-> GetMember(members, "parentId"),
     children |-> GetMember(members, "children"),
     cachedCards |-> ReadOptional(members, "cachedCards"),
     cachedAsciiArt |-> ReadOptional(members, "cachedAsciiArt"),
     generationTime |-> ReadOptional(members, "generationTime"),
     totalInputWords |-> ReadOptional(members, "totalInputWords"),
     totalOutputWords |-> ReadOptional(members, "totalOutputWords")]

JSONparse(text) ==
    [nodes |-> [id \in DOMAIN text.nodes |-> parseNode(text.nodes[id])],
     currentNodeId |-> text.currentNodeId,
     rootNodeIds |-> text.rootNodeIds]

\* The initialiser of the history state: the stored item parsed, or the empty
\* history when there is none.
loadHistory(item) == IF IsSome(item) THEN JSONparse(Val(item)) ELSE EmptyHistory

\* The save effect with history.currentNodeId as its only dependency.
saveHistoryOnMove(prev, snap, w) ==
    IF prev.currentNodeId # snap.currentNodeId
    THEN [w EXCEPT !.stored = Some(JSONstringify(History(snap)))]
    ELSE w

\* "Save to localStorage whenever history changes": the effect of the render
\* snap that follows the render prev. setItem is taken to succeed.
saveHistory(prev, snap, w) ==
    IF History(prev) # History(snap)
    THEN [w EXCEPT !.stored = Some(JSONstringify(History(snap)))]
    ELSE w

clearHistory(w) ==
    [w EXCEPT !.nodes = <<>>, !.currentNodeId = Null, !.rootNodeIds = <<>>]

\* ---------------------------------------------------------------- transport
\* The response body as text: a sequence of tokens, each a run of characters
\* the transport never looks into. A body is at most MaxLines lines, and
\* reaches the reader in chunks that end after any token.
MaxLines == 4

DataField == "data:"
Space == " "
NewLine == "\n"
Sentinel == "[DONE]"

\* Payloads: JSON with a text delta, JSON with none (or an empty one), text
\* that is no JSON.
DeltaJson == {"{d1}", "{d2}"}
NoDeltaJson == "{}"
Malformed == "{"

\* JSON.parse(data) followed by parsed.choices?.[0]?.delta?.content: nothing
\* when the parse throws, else the content, empty when there is none.
parseContent(data) ==
    IF Len(data) = 1 /\ data[1] \in DeltaJson THEN Some(<<data[1]>>)
    ELSE IF data = <<NoDeltaJson>> THEN Some(<<>>)
    ELSE None

\* line.startsWith('data: ') and line.slice(6)
startsWithData(line) == Len(line) >= 2 /\ line[1] = DataField /\ line[2] = Space
slice6(line) == SubSeq(line, 3, Len(line))

\* The for loop over the complete lines of one read: the fragments yielded,
\* and whether the generator returned at the sentinel.
RECURSIVE processLines(_, _)
processLines(yielded, lines) ==
    IF lines = <<>> THEN [yielded |-> yielded, returned |-> FALSE]
    ELSE LET line == Head(lines)
             data == slice6(line)
             content == parseContent(data)
         IN  IF ~startsWithData(line) THEN processLines(yielded, Tail(lines))
             ELSE IF data = <<Sentinel>> THEN [yielded |-> yielded, returned |-> TRUE]
             ELSE IF IsSome(content) /\ Val(content) # <<>>
             THEN processLines(Append(yielded, Val(content)), Tail(lines))
             ELSE processLines(yielded, Tail(lines))

\* readChunk with the lines of the chunk alone, the buffer left out.
readChunkUnbuffered(t, chunk) ==
    LET lines == splitLines(chunk)
        out == processLines(t.yielded, SubSeq(lines, 1, Len(lines) - 1))
    IN  [t EXCEPT !.read = @ + Len(chunk),
                  !.buffer = lines[Len(lines)],
                  !.yielded = out.yielded,
                  !.state = IF out.returned THEN "returned" ELSE "reading"]

\* One reader.read() that delivered chunk, with the loop over its lines.
readChunk(t, chunk) ==
    LET lines == splitLines(t.buffer \o chunk)
        out == processLines(t.yielded, SubSeq(lines, 1, Len(lines) - 1))
    IN  [t EXCEPT !.read = @ + Len(chunk),
                  !.buffer = lines[Len(lines)],
                  !.yielded = out.yielded,
                  !.state = IF out.returned THEN "returned" ELSE "reading"]

\* The lines a server sends: data lines with each payload, a data field
\* without the space, an empty line.
LineKinds ==
    {<<DataField, Space, payload, NewLine>> :
         payload \in DeltaJson \cup {NoDeltaJson, Malformed, Sentinel}}
        \cup {<<DataField, Malformed, NewLine>>, <<NewLine>>}

RECURSIVE Flatten(_)
Flatten(seqs) == IF seqs = <<>> THEN <<>> ELSE Head(seqs) \o Flatten(Tail(seqs))

\* Bodies: whole lines, the last one with or without its line end.
Bodies ==
    LET whole == {Flatten(ls) : ls \in UNION {[1..k -> LineKinds] : k \in 0..MaxLines}}
    IN  whole \cup {SubSeq(b, 1, Len(b) - 1) : b \in whole \ {<<>>}}

\* The exported generators: those that consume the stream and call back, and
\* those that await one answer.
Generator == "makeOpenRouterStreamRequest"
Streaming == {"generateContentCardsStream", "generateModifiedContentStream",
              "generateAsciiArtStream", "generateAsciiArt"}
Answering == {"getRandomWord", "generateBatchRelatedQuestions", "generateRelatedQuestions"}
EntryPoints == Streaming \cup Answering

\* The call before fetch resolves; ok is response.ok, readable is whether
\* response.body has a reader. entry is the function that made the request,
\* calls the arguments its onChunk was called with, outcome how its promise
\* settled, fetches the number of calls of fetch.
NewRequest(body, ok) ==
    [wire |-> body, ok |-> ok, read |-> 0, buffer |-> <<>>, yielded |-> <<>>,
     state |-> "fetching",
     entry |-> Generator, apiKey |-> TRUE, noWords |-> FALSE, readable |-> TRUE,
     fetches |-> 1, thrown |-> None, calls |-> <<>>, outcome |-> None]

NoRequest == NewRequest(<<>>, FALSE)

\* An exported generator was called and has not run yet.
NewCall(entry, apiKey, noWords, ok, readable, body) ==
    [NewRequest(body, ok) EXCEPT !.entry = entry, !.apiKey = apiKey,
                                 !.noWords = noWords, !.readable = readable,
                                 !.fetches = 0, !.state = "called"]

Rejected(message) == [kind |-> "rejected", error |-> message]
Resolved(value) == [kind |-> "resolved", value |-> value]

KeyError(entry) ==
    IF entry \in {"generateContentCardsStream", "generateModifiedContentStream"}
    THEN "OPENROUTER_API_KEY is not configured. Please check your environment variables to continue."
    ELSE "OPENROUTER_API_KEY is not configured."

ApiError == "OpenRouter API error"
NoReader == "No response body reader available"
FetchError == "Failed to fetch"
ReadError == "network error"
JsonError == "Unexpected token"

\* The exported generator up to its request, with no check of the key.
enterUnchecked(t) ==
    IF t.entry = "generateBatchRelatedQuestions" /\ t.noWords
    THEN [t EXCEPT !.state = "settled", !.outcome = Some(Resolved(<<>>))]
    ELSE [t EXCEPT !.state = "fetching", !.fetches = @ + 1]

\* The exported generator up to its request: the key check, the early return
\* of the batch for no words, the call of fetch.
enter(t) ==
    IF ~t.apiKey
    THEN [t EXCEPT !.state = "settled", !.outcome = Some(Rejected(<<KeyError(t.entry)>>))]
    ELSE IF t.entry = "generateBatchRelatedQuestions" /\ t.noWords
    THEN [t EXCEPT !.state = "settled", !.outcome = Some(Resolved(<<>>))]
    ELSE [t EXCEPT !.state = "fetching", !.fetches = @ + 1]

throw(t, message) == [t EXCEPT !.state = "thrown", !.thrown = Some(message)]

\* response.json() and data.choices?.[0]?.message?.content || ''
parseMessage(body) ==
    IF Len(body) = 1 /\ body[1] \in DeltaJson THEN Some(<<body[1]>>)
    ELSE IF body = <<NoDeltaJson>> THEN Some(<<>>)
    ELSE None

\* fetch resolved, the status not looked at.
respondedUnchecked(t) ==
    IF t.entry \in Answering
    THEN IF IsSome(parseMessage(t.wire))
         THEN [t EXCEPT !.state = "done", !.yielded = <<Val(parseMessage(t.wire))>>]
         ELSE throw(t, JsonError)
    ELSE IF ~t.readable THEN throw(t, NoReader)
    ELSE [t EXCEPT !.state = "reading"]

\* fetch resolved: the error of a response that is not ok; then the answer of
\* makeOpenRouterRequest, or the reader of makeOpenRouterStreamRequest.
responded(t) ==
    IF ~t.ok THEN throw(t, ApiError)
    ELSE IF t.entry \in Answering
    THEN IF IsSome(parseMessage(t.wire))
         THEN [t EXCEPT !.state = "done", !.yielded = <<Val(parseMessage(t.wire))>>]
         ELSE throw(t, JsonError)
    ELSE IF ~t.readable THEN throw(t, NoReader)
    ELSE [t EXCEPT !.state = "reading"]

\* cleanChunk.replace of the code fences (three backquotes)
Fence == "fence"
cleanChunk(chunk) == SelectSeq(chunk, LAMBDA c : c # Fence)

\* The body of the for await loop for one fragment.
RECURSIVE forAwait(_, _, _)
forAwait(entry, calls, fragments) ==
    IF fragments = <<>> THEN calls
    ELSE LET chunk == Head(fragments)
             first == IF calls = <<>> THEN <<[type |-> "title", value |-> <<>>]>> ELSE <<>>
             next ==
                 IF entry = "generateContentCardsStream"
                 THEN calls \o first \o <<[type |-> "content", value |-> chunk]>>
                 ELSE IF entry = "generateModifiedContentStream"
                 THEN calls \o first \o
                      (IF cleanChunk(chunk) # <<>>
                       THEN <<[type |-> "content", value |-> cleanChunk(chunk)]>> ELSE <<>>)
                 ELSE IF cleanChunk(chunk) # <<>> THEN Append(calls, cleanChunk(chunk))
                 ELSE calls
         IN  forAwait(entry, next, Tail(fragments))

\* The catch of each exported generator.
catch(entry, message) ==
    IF entry = "generateContentCardsStream"
    THEN Some(Rejected(<<"Could not generate content for", message>>))
    ELSE IF entry = "generateModifiedContentStream"
    THEN Some(Rejected(<<"Could not generate modified content.", message>>))
    ELSE IF entry = "getRandomWord"
    THEN Some(Rejected(<<"Could not get random word:", message>>))
    ELSE IF entry \in Answering THEN Some(Resolved(<<>>))
    ELSE Some(Rejected(<<message>>))

\* What the exported generator does with a step of its request: onChunk for
\* the fragments the step yielded, and its own end when the request ended.
consume(prev, t) ==
    IF t.entry = Generator THEN t
    ELSE IF t.entry \in Answering
    THEN [t EXCEPT !.outcome = IF t.state = "done" THEN Some(Resolved(t.yielded[1]))
                                ELSE IF t.state = "thrown" THEN catch(t.entry, Val(t.thrown))
                                ELSE @]
    ELSE [t EXCEPT !.calls = forAwait(t.entry, @,
                                 SubSeq(t.yielded, Len(prev.yielded) + 1, Len(t.yielded))),
                   !.outcome = IF t.state \in {"done", "returned"} THEN Some(Resolved(<<>>))
                               ELSE IF t.state = "thrown" THEN catch(t.entry, Val(t.thrown))
                               ELSE @]

\* -------------------------------------------------------------------- state
VARIABLES
    nodes, currentNodeId, rootNodeIds,      \* useTopicHistory's history
    stored,         \* localStorage's item under STORAGE_KEY, if any
    transport,      \* one call of makeOpenRouterStreamRequest, on its own
    currentTopic, cards, isLoading, error,  \* App's view state
    asciiArt, generationTime, viewMode, isAIModifying,
    epochs,         \* the runs of the generation effect that started streams
    effectEpoch,    \* the epoch whose cleanup the generation effect holds, or 0
    modifies,       \* the calls of handleAIModify
    rqInFlight,     \* generateBatchRelatedQuestions requests not yet answered
    applied,        \* the events a card list was folded over, in the
                    \* specification of the fold alone
    wordTotals,     \* totalInputWords and totalOutputWords, in the specification
                    \* that follows them; no handler reads them
    now,            \* the last Date.now() reading
    phase           \* "init" before the first render's effects, then "mounted",
                    \* "crashed" once a render has thrown

vars == <<nodes, currentNodeId, rootNodeIds, stored, transport, currentTopic, cards, isLoading, error,
          asciiArt, generationTime, viewMode, isAIModifying, epochs, effectEpoch,
          modifies, rqInFlight,
                   wordTotals, applied, now, phase>>

\* The state as one record: what a render (and the closures it creates) sees.
World ==
    [nodes |-> nodes, currentNodeId |-> currentNodeId, rootNodeIds |-> rootNodeIds,
     stored |-> stored, currentTopic |-> currentTopic, cards |-> cards, isLoading |-> isLoading,
     error |-> error, asciiArt |-> asciiArt, generationTime |-> generationTime,
     viewMode |-> viewMode, isAIModifying |-> isAIModifying, epochs |-> epochs,
     effectEpoch |-> effectEpoch, modifies |-> modifies, rqInFlight |-> rqInFlight,
     totalInputWords |-> IF IsSome(wordTotals) THEN Val(wordTotals).input ELSE 0,
     totalOutputWords |-> IF IsSome(wordTotals) THEN Val(wordTotals).output ELSE 0,
     now |-> now, phase |-> phase]

Install(w) ==
    /\ nodes' = w.nodes
    /\ currentNodeId' = w.currentNodeId
    /\ rootNodeIds' = w.rootNodeIds
    /\ stored' = w.stored
    /\ transport' = transport
    /\ currentTopic' = w.currentTopic
    /\ cards' = w.cards
    /\ isLoading' = w.isLoading
    /\ error' = w.error
    /\ asciiArt' = w.asciiArt
    /\ generationTime' = w.generationTime
    /\ viewMode' = w.viewMode
    /\ isAIModifying' = w.isAIModifying
    /\ epochs' = w.epochs
    /\ effectEpoch' = w.effectEpoch
    /\ modifies' = w.modifies
    /\ rqInFlight' = w.rqInFlight
    /\ applied' = applied
    /\ wordTotals' = IF IsSome(wordTotals)
                     THEN Some([input |-> w.totalInputWords, output |-> w.totalOutputWords])
                     ELSE None
    /\ now' = w.now
    /\ phase' = w.phase

\* ------------------------------------------------------------------ effects
isFullyCached(node) == IsSome(node.cachedCards) /\ IsSome(node.cachedAsciiArt)

\* The estimates of the words of the prompts.
ArtPromptWords == 50
PromptWordsWithPrevious == 80
PromptWordsAlone == 60
contentPromptWords(previousTopic) ==
    IF IsSome(previousTopic) THEN PromptWordsWithPrevious ELSE PromptWordsAlone

\* A text of the model is a sequence of runs of characters without white
\* space, and of blanks; runs that touch are one word.
\* chunk.value.split(/\s+/).filter(w => w.length > 0).length
countWords(value) ==
    Cardinality({i \in DOMAIN value : value[i] # " " /\ (i = 1 \/ value[i - 1] = " ")})

\* asciiBuffer.split(/\s+/).length: one piece more than there are runs of
\* white space.
splitLength(value) ==
    Cardinality({i \in DOMAIN value : value[i] = " " /\ (i = 1 \/ value[i - 1] # " ")}) + 1

NewEpoch(topic, nodeId, previousTopic) ==
    [topic |-> topic, nodeId |-> nodeId, previousTopic |-> previousTopic,
     isCancelled |-> FALSE, asciiBuffer |-> <<>>, ascii |-> "streaming",
     content |-> "streaming", sent |-> 0]

\* Once isCancelled is set no callback of the epoch reads its closure again
\* (asciiBuffer, the streams' positions): the model forgets them, and lets
\* any event of the cancelled epoch's requests arrive from then on, since
\* the requests are not aborted.
cancelled(epoch) ==
    [NewEpoch(epoch.topic, epoch.nodeId, epoch.previousTopic) EXCEPT !.isCancelled = TRUE]

\* A cleanup that leaves the flag of the previous run alone.
generationCleanupLeavingFlag(w) == w

\* The cleanup the previous run of the generation effect returned: the run
\* that loaded a cache returned none.
generationCleanup(w) ==
    IF w.effectEpoch # 0
    THEN [w EXCEPT !.epochs[w.effectEpoch] = cancelled(@)]
    ELSE w

\* The generation effect, fired by a render snap whose currentTopic or
\* currentNodeId changed; w collects the updates it queues.
generationEffect(snap, w) ==
    LET currentNode == getCurrentNode(snap)
        path == IF IsSome(currentNode) THEN getNodePath(snap, Val(currentNode).id) ELSE <<>>
        previousTopic == IF Len(path) > 1 THEN Some(path[Len(path) - 1].topic) ELSE None
    IN  IF snap.currentTopic = <<>> THEN [w EXCEPT !.effectEpoch = 0]
        ELSE IF IsSome(currentNode) /\ isFullyCached(Val(currentNode))
        THEN [w EXCEPT !.cards = Val(Val(currentNode).cachedCards),
                       !.asciiArt = Val(currentNode).cachedAsciiArt,
                       !.generationTime = Val(currentNode).generationTime,
                       !.isLoading = FALSE,
                       !.error = None,
                       !.effectEpoch = 0]
        ELSE [w EXCEPT !.isLoading = TRUE,
                       !.error = None,
                       !.cards = <<>>,
                       !.asciiArt = None,
                       !.generationTime = None,
                       !.epochs = Append(@, NewEpoch(snap.currentTopic,
                                        IF IsSome(currentNode) THEN Val(currentNode).id ELSE Null,
                                        previousTopic)),
                       !.totalInputWords = @ + contentPromptWords(previousTopic),
                       !.effectEpoch = Len(w.epochs) + 1]

\* The commit without the check that the art is there.
cacheCommitEffectWithoutArt(snap, w) ==
    LET currentNode == getCurrentNode(snap)
    IN  IF /\ IsSome(currentNode)
           /\ Len(snap.cards) > 0
           /\ ~snap.isLoading
           /\ ~IsSome(Val(currentNode).cachedCards)
        THEN updateNodeContent(w, Val(currentNode).id,
                 [cards |-> Some(snap.cards), asciiArt |-> snap.asciiArt,
                  generationTime |-> snap.generationTime,
                  totalInputWords |-> None, totalOutputWords |-> None])
        ELSE w

\* The commit without the check that the cache is still empty.
cacheCommitEffectMutant(snap, w) ==
    LET currentNode == getCurrentNode(snap)
    IN  IF /\ IsSome(currentNode)
           /\ Len(snap.cards) > 0
           /\ IsSome(snap.asciiArt)
           /\ ~snap.isLoading
        THEN updateNodeContent(w, Val(currentNode).id,
                 [cards |-> Some(snap.cards), asciiArt |-> snap.asciiArt,
                  generationTime |-> snap.generationTime,
                  totalInputWords |-> None, totalOutputWords |-> None])
        ELSE w

\* "Cache content when generation completes": runs after every render,
\* because getCurrentNode is a new function each render.
cacheCommitEffect(snap, w) ==
    LET currentNode == getCurrentNode(snap)
    IN  IF /\ IsSome(currentNode)
           /\ Len(snap.cards) > 0
           /\ IsSome(snap.asciiArt)
           /\ ~snap.isLoading
           /\ ~IsSome(Val(currentNode).cachedCards)
        THEN updateNodeContent(w, Val(currentNode).id,
                 [cards |-> Some(snap.cards), asciiArt |-> snap.asciiArt,
                  generationTime |-> snap.generationTime,
                  totalInputWords |-> None, totalOutputWords |-> None])
        ELSE w

\* "Generate related questions after content is complete": one batch request
\* when the displayed cards hold clickable words.
relatedQuestionsEffect(snap, w) ==
    IF Len(snap.cards) > 0 /\ ~snap.isLoading /\ extractClickableWords(snap.cards) # {}
    THEN [w EXCEPT !.rqInFlight = @ + 1]
    ELSE w

\* One render of w after the render prev, with the effects whose dependencies
\* changed, in the order App declares them.
renderEffects(prev, w) ==
    LET generationFires == prev.currentTopic # w.currentTopic
                             \/ prev.currentNodeId # w.currentNodeId
        relatedFires == prev.cards # w.cards \/ prev.isLoading # w.isLoading
        s == saveHistory(prev, w, w)
        g == IF generationFires THEN generationEffect(w, generationCleanup(s)) ELSE s
        c == cacheCommitEffect(w, g)
    IN  IF relatedFires THEN relatedQuestionsEffect(w, c) ELSE c

\* Renders until the effects queue no further update.
RECURSIVE Flush(_, _)
Flush(prev, w) ==
    LET next == renderEffects(prev, w)
    IN  IF next = w THEN w ELSE Flush(w, next)

\* ------------------------------------------------------------ user handlers
setCurrentTopic(w, topic) == [w EXCEPT !.currentTopic = topic]

\* t is the Date.now() reading of the addTopic call.
\* handleWordClick with the topics compared as they are written.
handleWordClickCaseSensitive(w, word, t) ==
    LET newTopic == trim(word)
    IN  IF newTopic # <<>> /\ newTopic # w.currentTopic
        THEN setCurrentTopic([addTopic(w, newTopic, w.currentNodeId, t) EXCEPT !.now = t],
                             newTopic)
        ELSE w

handleWordClick(w, word, t) ==
    LET newTopic == trim(word)
    IN  IF newTopic # <<>> /\ toLowerCase(newTopic) # toLowerCase(w.currentTopic)
        THEN setCurrentTopic([addTopic(w, newTopic, w.currentNodeId, t) EXCEPT !.now = t],
                             newTopic)
        ELSE w

handleSearch(w, topic, t) ==
    LET newTopic == trim(topic)
    IN  IF newTopic # <<>> /\ toLowerCase(newTopic) # toLowerCase(w.currentTopic)
        THEN setCurrentTopic([addTopic(w, newTopic, Null, t) EXCEPT !.now = t], newTopic)
        ELSE w

\* randomIndex is Math.floor(Math.random() * UNIQUE_WORDS.length), from 0.
\* handleRandom with the next index held at the end of the list.
handleRandomNoWrap(w, randomIndex, t) ==
    LET reset == [w EXCEPT !.isLoading = TRUE, !.error = None,
                           !.cards = <<>>, !.asciiArt = None]
        drawn == UNIQUE_WORDS[randomIndex + 1]
        nextIndex == IF randomIndex + 1 < Len(UNIQUE_WORDS) THEN randomIndex + 1
                     ELSE randomIndex
        randomWord == IF toLowerCase(drawn) = toLowerCase(w.currentTopic)
                      THEN UNIQUE_WORDS[nextIndex + 1]
                      ELSE drawn
    IN  setCurrentTopic([addTopic(reset, randomWord, Null, t) EXCEPT !.now = t],
                        randomWord)

handleRandom(w, randomIndex, t) ==
    LET reset == [w EXCEPT !.isLoading = TRUE, !.error = None,
                           !.cards = <<>>, !.asciiArt = None]
        drawn == UNIQUE_WORDS[randomIndex + 1]
        nextIndex == (randomIndex + 1) % Len(UNIQUE_WORDS)
        randomWord == IF toLowerCase(drawn) = toLowerCase(w.currentTopic)
                      THEN UNIQUE_WORDS[nextIndex + 1]
                      ELSE drawn
    IN  setCurrentTopic([addTopic(reset, randomWord, Null, t) EXCEPT !.now = t],
                        randomWord)

handleNavigateToHistoryNode(w, nodeId) ==
    IF w.viewMode = "onepage" THEN w
    ELSE LET moved == navigateToNode(w, w, nodeId)
         IN  IF nodeId \in DOMAIN w.nodes
             THEN LET node == w.nodes[nodeId]
                      shown == setCurrentTopic(moved, node.topic)
                  IN  IF isFullyCached(node)
                      THEN [shown EXCEPT !.cards = Val(node.cachedCards),
                                         !.asciiArt = node.cachedAsciiArt,
                                         !.generationTime = node.generationTime,
                                         !.isLoading = FALSE,
                                         !.error = None,
                                         !.totalInputWords =
                                             IF IsSome(node.totalInputWords)
                                             THEN @ + Val(node.totalInputWords) ELSE @,
                                         !.totalOutputWords =
                                             IF IsSome(node.totalOutputWords)
                                             THEN @ + Val(node.totalOutputWords) ELSE @]
                      ELSE shown
             ELSE moved

ModifyError == [msg |-> "Failed to modify content. Please try again.", topic |-> <<>>]
ContentError(topic) == [msg |-> "Could not generate content for", topic |-> topic]

\* The call of handleAIModify: the record keeps what its closures hold, the
\* cards and the current node of the render that made the call.
handleAIModify(w) ==
    LET currentNode == getCurrentNode(w)
    IN  IF ~IsSome(currentNode) \/ w.isAIModifying \/ ~IsSome(Val(currentNode).cachedCards)
        THEN w
        ELSE [w EXCEPT !.isAIModifying = TRUE,
                       !.error = None,
                       !.cards = <<>>,
                       !.modifies = Append(@,
                           [nodeId |-> Val(currentNode).id,
                            cards |-> w.cards,
                            cachedCards |-> Val(currentNode).cachedCards,
                            cachedAsciiArt |-> Val(currentNode).cachedAsciiArt,
                            generationTime |-> Val(currentNode).generationTime,
                            status |-> "streaming", sent |-> 0])]

\* ---------------------------------------------------------- stream handlers
\* Callbacks of generation epoch e; isCancelled is the flag of its closure.
handleAsciiChunk(w, e, chunk) ==
    IF ~w.epochs[e].isCancelled
    THEN [w EXCEPT !.epochs[e].asciiBuffer = @ \o chunk,
                   !.asciiArt = Some([art |-> w.epochs[e].asciiBuffer \o chunk])]
    ELSE w

asciiThen(w, e) ==
    IF ~w.epochs[e].isCancelled
    THEN [w EXCEPT !.asciiArt = Some([art |-> w.epochs[e].asciiBuffer]),
                   !.totalInputWords = @ + ArtPromptWords,
                   !.totalOutputWords = @ + splitLength(w.epochs[e].asciiBuffer)]
    ELSE w

\* A catch that reports the failure the way the content flow's does.
asciiCatchMutant(w, e) ==
    IF ~w.epochs[e].isCancelled
    THEN [w EXCEPT !.asciiArt = Some(createFallbackArt(w.epochs[e].topic)),
                   !.error = Some([msg |-> "Could not generate art for",
                                   topic |-> w.epochs[e].topic])]
    ELSE w

asciiCatch(w, e) ==
    IF ~w.epochs[e].isCancelled
    THEN [w EXCEPT !.asciiArt = Some(createFallbackArt(w.epochs[e].topic))]
    ELSE w

\* The callback without the isCancelled check.
handleChunkMutant(w, e, chunk) == [w EXCEPT !.cards = foldChunk(@, chunk)]

handleChunk(w, e, chunk) ==
    IF w.epochs[e].isCancelled THEN w
    ELSE [w EXCEPT !.cards = foldChunk(@, chunk),
                   !.totalOutputWords = IF chunk.type \in {"title", "content"}
                                        THEN @ + countWords(chunk.value) ELSE @]

streamContentCatch(w, e) ==
    IF ~w.epochs[e].isCancelled
    THEN [w EXCEPT !.error = Some(ContentError(w.epochs[e].topic)), !.cards = <<>>]
    ELSE w

\* The finally block, made to wait for the art before it ends the loading.
streamContentFinallyAfterArt(w, e) ==
    IF ~w.epochs[e].isCancelled
    THEN [w EXCEPT !.generationTime = Some(e),
                   !.isLoading = IF w.epochs[e].ascii = "streaming" THEN @ ELSE FALSE]
    ELSE w

\* The elapsed time epoch e measured is written e.
streamContentFinally(w, e) ==
    IF ~w.epochs[e].isCancelled
    THEN [w EXCEPT !.generationTime = Some(e), !.isLoading = FALSE]
    ELSE w

\* generateContentCardsStream's loop body for one delta: an empty title
\* before the first, then the delta as content.
contentDelta(w, e, delta) ==
    LET first == IF w.epochs[e].sent = 0
                 THEN handleChunk(w, e, [type |-> "title", value |-> <<>>])
                 ELSE w
    IN  handleChunk(first, e, [type |-> "content", value |-> delta])

\* The position of a stream of epoch e, recorded while the epoch is live.
progress(w, e, field, value) ==
    IF w.epochs[e].isCancelled THEN w ELSE [w EXCEPT !.epochs[e][field] = value]

\* Callbacks of modify call m.
modifyHandleChunk(w, m, chunk, isFirstChunk) ==
    LET started == IF isFirstChunk THEN [w EXCEPT !.cards = <<EmptyCard>>] ELSE w
    IN  [started EXCEPT !.cards = modifyFoldChunk(@, chunk)]

modifyDelta(w, m, delta) ==
    LET first == IF w.modifies[m].sent = 0
                 THEN modifyHandleChunk(w, m, [type |-> "title", value |-> <<>>], TRUE)
                 ELSE w
    IN  modifyHandleChunk(first, m, [type |-> "content", value |-> delta], FALSE)

\* What is left of a call once no callback of it reads its closure again.
settled(status) ==
    [nodeId |-> Null, cards |-> <<>>, cachedCards |-> None, cachedAsciiArt |-> None,
     generationTime |-> None, status |-> status, sent |-> 0]

\* The catch block without the restoring of the cards.
modifyCatchKeepingCards(w, m) ==
    [w EXCEPT !.error = Some(ModifyError),
              !.isAIModifying = FALSE,
              !.modifies[m] = settled("failed")]

modifyCatch(w, m) ==
    [w EXCEPT !.error = Some(ModifyError),
              !.cards = Val(w.modifies[m].cachedCards),
              !.isAIModifying = FALSE,
              !.modifies[m] = settled("failed")]

\* The stream is over: the catch block, the one reader of cachedCards, can
\* no longer run.
modifyResolved(w, m) ==
    [w EXCEPT !.isAIModifying = FALSE,
              !.modifies[m] = [@ EXCEPT !.status = "timer", !.cachedCards = None,
                                        !.sent = 0]]

\* The setTimeout callback: cards and getCurrentNode are those of the render
\* that called handleAIModify.
modifyTimeout(w, m) ==
    LET call == w.modifies[m]
        done == [w EXCEPT !.modifies[m] = settled("done")]
    IN  IF Len(call.cards) > 0
        THEN updateNodeContent(done, call.nodeId,
                 [cards |-> Some(call.cards), asciiArt |-> call.cachedAsciiArt,
                  generationTime |-> call.generationTime,
                  totalInputWords |-> None, totalOutputWords |-> None])
        ELSE done

\* ------------------------------------------------------------------ actions
\* What the user can type or click: a topic, the same topic in another
\* case behind a blank, and a blank.
WordInputs == {Balance, <<" ">> \o toLowerCase(Hypertext), <<" ">>}

\* Date.now() at a user event: later than the reading of the event before
\* it, since two events of one user are more than a millisecond apart.
ClockReadings == {now + 1}

WithinBounds(w) ==
    /\ Len(w.epochs) <= MaxEpochs
    /\ Len(w.modifies) <= MaxModifies
    /\ w.rqInFlight <= MaxRq

\* The step to w: the handler's updates, rendered; a handler that changed
\* nothing causes no render.
Step(w) ==
    LET rendered == IF w = World THEN w ELSE Flush(World, w)
    IN  WithinBounds(rendered) /\ Install(rendered)

Init ==
    /\ stored = None
    /\ transport = NoRequest
    /\ nodes = loadHistory(stored).nodes
    /\ currentNodeId = loadHistory(stored).currentNodeId
    /\ rootNodeIds = loadHistory(stored).rootNodeIds
    /\ currentTopic = Hypertext
    /\ cards = <<>>
    /\ isLoading = TRUE
    /\ error = None
    /\ asciiArt = None
    /\ generationTime = None
    /\ viewMode = "normal"
    /\ isAIModifying = FALSE
    /\ epochs = <<>>
    /\ effectEpoch = 0
    /\ modifies = <<>>
    /\ rqInFlight = 0 /\ wordTotals = None /\ applied = <<>>
    /\ now = 0
    /\ phase = "init"

\* The effects of the first render, all of them: "Initialize first topic if
\* no history exists", then the generation effect on the same render.
mountEffects(w, t) ==
    LET currentNode == getCurrentNode(w)
        i == IF DOMAIN w.nodes = {}
             THEN [addTopic(w, Hypertext, Null, t) EXCEPT !.now = t]
             ELSE IF IsSome(currentNode)
                  THEN setCurrentTopic(w, Val(currentNode).topic)
                  ELSE w
        s == [i EXCEPT !.stored = Some(JSONstringify(History(w)))]
        g == generationEffect(w, s)
        c == cacheCommitEffect(w, g)
    IN  relatedQuestionsEffect(w, c)

Mount ==
    /\ phase = "init"
    /\ \E t \in ClockReadings :
         LET w == [mountEffects(World, t) EXCEPT !.phase = "mounted"]
         IN  Step(w)

\* A marked word is on the page: in a displayed card, or in one-page mode in
\* the cards of a cached node.
clickableShown ==
    \/ viewMode = "normal" /\ error = None /\ extractClickableWords(cards) # {}
    \/ /\ viewMode = "onepage"
       /\ \E id \in DOMAIN nodes :
            /\ isFullyCached(nodes[id])
            /\ extractClickableWords(Val(nodes[id].cachedCards)) # {}

WordClick ==
    /\ phase = "mounted"
    /\ clickableShown
    /\ \E word \in WordInputs, t \in ClockReadings :
         Step(handleWordClick([World EXCEPT !.viewMode = "normal"], word, t))

\* SearchBar.handleSubmit: the form ignores a blank query and is disabled
\* while loading.
Search ==
    /\ phase = "mounted"
    /\ ~isLoading
    /\ \E query \in WordInputs, t \in ClockReadings :
         /\ trim(query) # <<>>
         /\ Step(handleSearch(World, trim(query), t))

Random ==
    /\ phase = "mounted"
    /\ ~isLoading
    /\ \E randomIndex \in 0..(Len(UNIQUE_WORDS) - 1), t \in ClockReadings :
         Step(handleRandom(World, randomIndex, t))

NavigateToHistoryNode ==
    /\ phase = "mounted"
    /\ \E nodeId \in DOMAIN nodes : Step(handleNavigateToHistoryNode(World, nodeId))

\* The outline shows the clear button when there are nodes.
ClearHistory ==
    /\ phase = "mounted"
    /\ DOMAIN nodes # {}
    /\ Step(clearHistory(World))

\* The modify input is rendered in normal mode for a current node, and is
\* disabled while a modify runs.
AIModify ==
    /\ phase = "mounted"
    /\ viewMode = "normal"
    /\ IsSome(getCurrentNode(World))
    /\ ~isAIModifying
    /\ Step(handleAIModify(World))

\* A stream of epoch e can still deliver an event.
Pending(e, stream) == epochs[e].isCancelled \/ epochs[e][stream] = "streaming"

\* One delta of the content stream of epoch e.
ContentChunk ==
    /\ phase = "mounted"
    /\ \E e \in DOMAIN epochs :
         /\ Pending(e, "content")
         /\ epochs[e].sent < MaxChunks
         /\ Step(progress(contentDelta(World, e, Delta(e, epochs[e].sent + 1)),
                          e, "sent", epochs[e].sent + 1))

ContentEnd ==
    /\ phase = "mounted"
    /\ \E e \in DOMAIN epochs :
         /\ Pending(e, "content")
         /\ Step(progress(streamContentFinally(World, e), e, "content", "done"))

\* The request is refused, or the stream breaks after some deltas.
ContentFail ==
    /\ phase = "mounted"
    /\ \E e \in DOMAIN epochs :
         /\ Pending(e, "content")
         /\ Step(progress(streamContentFinally(streamContentCatch(World, e), e),
                          e, "content", "failed"))

AsciiChunk ==
    /\ phase = "mounted"
    /\ \E e \in DOMAIN epochs :
         /\ Pending(e, "ascii")
         /\ Len(epochs[e].asciiBuffer) < MaxArtChunks
         /\ Step(handleAsciiChunk(World, e, ArtDelta(e, Len(epochs[e].asciiBuffer) + 1)))

AsciiEnd ==
    /\ phase = "mounted"
    /\ \E e \in DOMAIN epochs :
         /\ Pending(e, "ascii")
         /\ Step(progress(asciiThen(World, e), e, "ascii", "done"))

AsciiFail ==
    /\ phase = "mounted"
    /\ \E e \in DOMAIN epochs :
         /\ Pending(e, "ascii")
         /\ Step(progress(asciiCatch(World, e), e, "ascii", "failed"))

\* One delta of modify stream m.  On an empty card list the updater throws:
\* inside the setCards call, where handleAIModify's catch takes it, or in
\* the render, which unmounts the application.
ModifyChunk ==
    /\ phase = "mounted"
    /\ \E m \in DOMAIN modifies :
         /\ modifies[m].status = "streaming"
         /\ modifies[m].sent < MaxModChunks
         /\ IF modifies[m].sent > 0 /\ cards = <<>>
            THEN \/ Step(modifyCatch(World, m))
                 \/ Step([World EXCEPT !.phase = "crashed"])
            ELSE Step([modifyDelta(World, m, ModDelta(m, modifies[m].sent + 1))
                         EXCEPT !.modifies[m].sent = @ + 1])

ModifyEnd ==
    /\ phase = "mounted"
    /\ \E m \in DOMAIN modifies :
         /\ modifies[m].status = "streaming"
         /\ Step(modifyResolved(World, m))

ModifyFail ==
    /\ phase = "mounted"
    /\ \E m \in DOMAIN modifies :
         /\ modifies[m].status = "streaming"
         /\ Step(modifyCatch(World, m))

ModifyTimeout ==
    /\ phase = "mounted"
    /\ \E m \in DOMAIN modifies :
         /\ modifies[m].status = "timer"
         /\ Step(modifyTimeout(World, m))

\* A related-questions request is answered: setRelatedQuestions.
RelatedQuestionsAnswered ==
    /\ phase = "mounted"
    /\ rqInFlight > 0
    /\ Step([World EXCEPT !.rqInFlight = @ - 1])

Next ==
    \/ Mount
    \/ WordClick
    \/ Search
    \/ Random
    \/ NavigateToHistoryNode
    \/ ClearHistory
    \/ AIModify
    \/ ContentChunk
    \/ ContentEnd
    \/ ContentFail
    \/ AsciiChunk
    \/ AsciiEnd
    \/ AsciiFail
    \/ ModifyChunk
    \/ ModifyEnd
    \/ ModifyFail
    \/ ModifyTimeout
    \/ RelatedQuestionsAnswered

Spec == Init /\ [][Next]_vars

\* ------------------------------------- a session that finds a stored history
\* The history an earlier session left in localStorage: the first topic with
\* its cache committed.
KeptId == NodeId(Hypertext, 1)

KeptNode ==
    [NewNode(KeptId, Hypertext, 1, Null) EXCEPT
        !.cachedCards = Some(<<[title |-> <<>>, content |-> <<"kept">>]>>),
        !.cachedAsciiArt = Some([art |-> <<"keptart">>]),
        !.generationTime = Some(1)]

KeptHistory ==
    [nodes |-> (KeptId :> KeptNode), currentNodeId |-> KeptId, rootNodeIds |-> <<KeptId>>]

InitSession ==
    /\ stored = Some(JSONstringify(KeptHistory))
    /\ transport = NoRequest
    /\ nodes = loadHistory(stored).nodes
    /\ currentNodeId = loadHistory(stored).currentNodeId
    /\ rootNodeIds = loadHistory(stored).rootNodeIds
    /\ currentTopic = Hypertext
    /\ cards = <<>> /\ isLoading = TRUE /\ error = None
    /\ asciiArt = None /\ generationTime = None
    /\ viewMode = "normal" /\ isAIModifying = FALSE
    /\ epochs = <<>> /\ effectEpoch = 0 /\ modifies = <<>>
    /\ rqInFlight = 0 /\ wordTotals = None /\ applied = <<>> /\ now = 1 /\ phase = "init"

\* The session of a user who asks for a modification, clears the history and
\* follows words, over a network that delivers every stream without failure.
NextSession ==
    \/ Mount
    \/ WordClick
    \/ ClearHistory
    \/ AIModify
    \/ ContentChunk
    \/ ContentEnd
    \/ AsciiChunk
    \/ AsciiEnd
    \/ ModifyChunk
    \/ ModifyEnd
    \/ ModifyTimeout
    \/ RelatedQuestionsAnswered

SpecSession == InitSession /\ [][NextSession]_vars

\* ------------------------------------------- a session whose words are counted
\* The totals start at 0 (useState<number>(0)); the user follows words and
\* walks the history, and the streams may fail.
InitWords ==
    /\ stored = None
    /\ transport = NoRequest
    /\ nodes = loadHistory(stored).nodes
    /\ currentNodeId = loadHistory(stored).currentNodeId
    /\ rootNodeIds = loadHistory(stored).rootNodeIds
    /\ currentTopic = Hypertext
    /\ cards = <<>> /\ isLoading = TRUE /\ error = None
    /\ asciiArt = None /\ generationTime = None
    /\ viewMode = "normal" /\ isAIModifying = FALSE
    /\ epochs = <<>> /\ effectEpoch = 0 /\ modifies = <<>>
    /\ rqInFlight = 0 /\ wordTotals = Some([input |-> 0, output |-> 0]) /\ applied = <<>>
    /\ now = 0 /\ phase = "init"

NextWords ==
    \/ Mount
    \/ WordClick
    \/ NavigateToHistoryNode
    \/ ContentChunk
    \/ ContentEnd
    \/ ContentFail
    \/ AsciiChunk
    \/ AsciiEnd
    \/ AsciiFail
    \/ RelatedQuestionsAnswered

SpecWords == InitWords /\ [][NextWords]_vars

\* The same session with what the runtime guarantees: a request that was sent
\* ends or fails, and the event loop runs the callback of every event that
\* has arrived.  Nothing makes the user act.  The fairness of the two kinds
\* of stream events is weak fairness written out, WF_vars(A) being
\* []<>~ENABLED <<A>>_vars \/ []<><<A>>_vars, with the requests that are
\* still to end as the states where an event can happen.
ContentEvent == ContentChunk \/ ContentEnd \/ ContentFail
AsciiEvent == AsciiChunk \/ AsciiEnd \/ AsciiFail

StillStreaming(stream) ==
    /\ phase = "mounted"
    /\ \E e \in DOMAIN epochs : ~epochs[e].isCancelled /\ epochs[e][stream] = "streaming"

SpecEventual ==
    /\ InitWords
    /\ [][NextWords]_vars
    /\ WF_vars(RelatedQuestionsAnswered)
    /\ ([]<>~StillStreaming("content") \/ []<><<ContentEvent>>_vars)
    /\ ([]<>~StillStreaming("ascii") \/ []<><<AsciiEvent>>_vars)

\* ------------------------------------------------ the event fold on its own
\* At most MaxEvents events of the CardStreamChunk type, with two titles and
\* two texts to tell apart.
MaxEvents == 4

FoldEvents ==
    {[type |-> "title", value |-> v] : v \in {<<>>, <<"T">>}}
        \cup {[type |-> "content", value |-> v] : v \in {<<"a">>, <<"b", " ">>}}
        \cup {[type |-> "separator", value |-> <<>>]}

InitFold ==
    /\ stored = None
    /\ transport = NoRequest
    /\ nodes = <<>> /\ currentNodeId = Null /\ rootNodeIds = <<>>
    /\ currentTopic = Hypertext
    /\ cards = <<>> /\ isLoading = TRUE /\ error = None
    /\ asciiArt = None /\ generationTime = None
    /\ viewMode = "normal" /\ isAIModifying = FALSE
    /\ epochs = <<>> /\ effectEpoch = 0 /\ modifies = <<>>
    /\ rqInFlight = 0 /\ wordTotals = None /\ applied = <<>> /\ now = 0 /\ phase = "init"

\* setCards(prev => ...) for one event.
FoldEvent ==
    /\ Len(applied) < MaxEvents
    /\ \E chunk \in FoldEvents :
         /\ cards' = foldChunk(cards, chunk)
         /\ applied' = Append(applied, chunk)
    /\ UNCHANGED <<nodes, currentNodeId, rootNodeIds, stored, transport, currentTopic,
                   isLoading, error, asciiArt, generationTime, viewMode, isAIModifying,
                   epochs, effectEpoch, modifies, rqInFlight, wordTotals, now, phase>>

NextFold == FoldEvent

SpecFold == InitFold /\ [][NextFold]_vars

\* --------------------------------------------- createFallbackArt on its own
\* Topics of every length up to MaxTopicLen: runs of one letter, and the
\* prefixes of a text that starts with the application's first topic.
FallbackTopics ==
    {repeat(c, n) : c \in {"a", " "}, n \in 0..MaxTopicLen}
        \cup {substring0(Hypertext \o Balance \o Harmony, n) : n \in 0..MaxTopicLen}

InitFallback ==
    /\ currentTopic \in FallbackTopics
    /\ nodes = <<>> /\ currentNodeId = Null /\ rootNodeIds = <<>> /\ stored = None
    /\ transport = NoRequest
    /\ cards = <<>> /\ isLoading = TRUE /\ error = None
    /\ asciiArt = None /\ generationTime = None
    /\ viewMode = "normal" /\ isAIModifying = FALSE
    /\ epochs = <<>> /\ effectEpoch = 0 /\ modifies = <<>>
    /\ rqInFlight = 0 /\ wordTotals = None /\ applied = <<>> /\ now = 0 /\ phase = "init"

\* setAsciiArt(createFallbackArt(currentTopic)), the body of the art
\* request's catch.
ShowFallback ==
    /\ asciiArt = None
    /\ asciiArt' = Some(createFallbackArt(currentTopic))
    /\ UNCHANGED <<nodes, currentNodeId, rootNodeIds, stored, transport, currentTopic, cards, isLoading,
                   error, generationTime, viewMode, isAIModifying, epochs, effectEpoch,
                   modifies, rqInFlight,
                   wordTotals, applied, now, phase>>

NextFallback == ShowFallback

SpecFallback == InitFallback /\ [][NextFallback]_vars

\* handleRandom alone: any current topic, any drawn index, any clock reading.
MaxDraws == 2

RandomTopics ==
    FallbackTopics \cup {Balance, Harmony, toLowerCase(Balance), toLowerCase(Harmony),
                         toLowerCase(Hypertext)}

InitRandom ==
    /\ currentTopic \in RandomTopics
    /\ nodes = <<>> /\ currentNodeId = Null /\ rootNodeIds = <<>> /\ stored = None
    /\ transport = NoRequest
    /\ cards = <<>> /\ isLoading = FALSE /\ error = None
    /\ asciiArt = None /\ generationTime = None
    /\ viewMode = "normal" /\ isAIModifying = FALSE
    /\ epochs = <<>> /\ effectEpoch = 0 /\ modifies = <<>>
    /\ rqInFlight = 0 /\ wordTotals = None /\ applied = <<>> /\ now \in 0..MaxClock /\ phase = "mounted"

RandomCall ==
    /\ Len(rootNodeIds) < MaxDraws
    /\ \E randomIndex \in 0..(Len(UNIQUE_WORDS) - 1) :
         LET w == handleRandom(World, randomIndex, now + 1)
         IN  Install(saveHistory(World, w, w))

NextRandom == RandomCall

SpecRandom == InitRandom /\ [][NextRandom]_vars

\* ------------------------------------------------ useTopicHistory on its own
\* The hook called directly: any topic, any parentId (null, the id of a node,
\* an id no node has), and a clock that may read the same millisecond twice.
HookTopics == {Balance, Harmony}
GhostId == NodeId(<<"g", "h", "o", "s", "t">>, 0)
ParentIds == {Null, GhostId} \cup DOMAIN nodes

RECURSIVE SumChildren(_, _)
SumChildren(w, ids) ==
    IF ids = {} THEN 0
    ELSE LET id == CHOOSE x \in ids : TRUE
         IN  Len(w.nodes[id].children) + SumChildren(w, ids \ {id})

\* The entries of the root list and of the children lists together.
Listed(w) == Len(w.rootNodeIds) + SumChildren(w, DOMAIN w.nodes) <= MaxListed

AddTopicCall ==
    \E topic \in HookTopics, parentId \in ParentIds, t \in {now, now + 1} :
        LET w == [addTopic(World, topic, parentId, t) EXCEPT !.now = t]
        IN  /\ t >= 1
            /\ t <= MaxClock
            /\ Listed(w)
            /\ Install(saveHistory(World, w, w))

NextHistory == AddTopicCall

SpecHistory == Init /\ [][NextHistory]_vars

\* -------------------------------------- makeOpenRouterStreamRequest on its own
InitTransport ==
    /\ transport \in {NewRequest(body, TRUE) : body \in Bodies} \cup {NoRequest}
    /\ stored = None
    /\ nodes = <<>> /\ currentNodeId = Null /\ rootNodeIds = <<>>
    /\ currentTopic = Hypertext
    /\ cards = <<>> /\ isLoading = TRUE /\ error = None
    /\ asciiArt = None /\ generationTime = None
    /\ viewMode = "normal" /\ isAIModifying = FALSE
    /\ epochs = <<>> /\ effectEpoch = 0 /\ modifies = <<>>
    /\ rqInFlight = 0 /\ wordTotals = None /\ applied = <<>> /\ now = 0 /\ phase = "init"

TransportStep(t) ==
    /\ transport' = consume(transport, t)
    /\ UNCHANGED <<nodes, currentNodeId, rootNodeIds, stored, currentTopic, cards,
                   isLoading, error, asciiArt, generationTime, viewMode, isAIModifying,
                   epochs, effectEpoch, modifies, rqInFlight,
                   wordTotals, applied, now, phase>>

\* fetch resolved: the error of a response that is not ok, or the reader.
Responded ==
    /\ transport.state = "fetching"
    /\ TransportStep(responded(transport))

ReadChunk ==
    /\ transport.state = "reading"
    /\ \E n \in 1..(Len(transport.wire) - transport.read) :
         TransportStep(readChunk(transport,
             SubSeq(transport.wire, transport.read + 1, transport.read + n)))

\* reader.read() reported done: the loop breaks and the generator ends.
ReadDone ==
    /\ transport.state = "reading"
    /\ transport.read = Len(transport.wire)
    /\ TransportStep([transport EXCEPT !.state = "done"])

NextTransport == Responded \/ ReadChunk \/ ReadDone

SpecTransport == InitTransport /\ [][NextTransport]_vars

\* --------------------------------------- the exported generators on their own
\* A body of at most MaxAnswerLines lines.
MaxAnswerLines == 2

Answers ==
    {Flatten(ls) : ls \in UNION {[1..k -> LineKinds] : k \in 0..MaxAnswerLines}}
        \cup {<<payload>> : payload \in DeltaJson \cup {NoDeltaJson, Malformed}}

InitService ==
    /\ \E entry \in EntryPoints, body \in Answers, apiKey, noWords, ok, readable \in BOOLEAN :
         transport = NewCall(entry, apiKey, noWords, ok, readable, body)
    /\ stored = None
    /\ nodes = <<>> /\ currentNodeId = Null /\ rootNodeIds = <<>>
    /\ currentTopic = Hypertext
    /\ cards = <<>> /\ isLoading = TRUE /\ error = None
    /\ asciiArt = None /\ generationTime = None
    /\ viewMode = "normal" /\ isAIModifying = FALSE
    /\ epochs = <<>> /\ effectEpoch = 0 /\ modifies = <<>>
    /\ rqInFlight = 0 /\ wordTotals = None /\ applied = <<>> /\ now = 0 /\ phase = "init"

Enter ==
    /\ transport.state = "called"
    /\ TransportStep(enter(transport))

\* fetch rejected: no response.
FetchFail ==
    /\ transport.state = "fetching"
    /\ TransportStep(throw(transport, FetchError))

\* reader.read() rejected in the middle of the body.
ReadFail ==
    /\ transport.state = "reading"
    /\ TransportStep(throw(transport, ReadError))

NextService == Enter \/ Responded \/ FetchFail \/ ReadChunk \/ ReadFail \/ ReadDone

SpecService == InitService /\ [][NextService]_vars

\* ================================================================== claims
\* What a step can be seen to be.
UserStep ==
    \/ now' # now
    \/ currentNodeId' # currentNodeId
    \/ Len(modifies') # Len(modifies)

AllModifyAtoms == UNION {ModifyAtoms(m) : m \in 1..MaxModifies}

CachedCardsOf(ns, id) ==
    IF id # Null /\ id \in DOMAIN ns /\ IsSome(ns[id].cachedCards)
    THEN Val(ns[id].cachedCards)
    ELSE <<>>

\* The texts the art request of epoch e can have put on display.
ArtTexts(e) == {SubSeq([k \in 1..MaxArtChunks |-> ArtDelta(e, k)[1]], 1, n) : n \in 0..MaxArtChunks}

\* C1 (last topic wins): in every step, a fragment that newly appears in the
\* displayed cards was delivered by the newest generation epoch (or is a
\* cached card list being loaded, or belongs to a modify call, which C33
\* treats); displayed art that changes becomes empty, the newest epoch's art
\* or fallback, or a cached art being loaded; a generation time that changes
\* is the newest epoch's or a cached one.  No stream of an older epoch writes.
C1_LastTopicWins ==
    [][LET live == effectEpoch'
           cached == CachedCardsOf(nodes', currentNodeId')
           restored == UNION {CardAtoms(IF IsSome(modifies[m].cachedCards)
                                        THEN Val(modifies[m].cachedCards) ELSE <<>>)
                              : m \in DOMAIN modifies}
       IN  /\ (CardAtoms(cards') \ CardAtoms(cards))
                \subseteq ((IF live # 0 THEN EpochAtoms(live) ELSE {})
                           \cup CardAtoms(cached) \cup AllModifyAtoms \cup restored)
           /\ asciiArt' # asciiArt =>
                \/ asciiArt' = None
                \/ /\ live # 0
                   /\ \/ Val(asciiArt').art \in ArtTexts(live)
                      \/ asciiArt' = Some(createFallbackArt(epochs'[live].topic))
                \/ /\ currentNodeId' # Null /\ currentNodeId' \in DOMAIN nodes'
                   /\ asciiArt' = nodes'[currentNodeId'].cachedAsciiArt
           /\ generationTime' # generationTime =>
                \/ generationTime' = None
                \/ live # 0 /\ generationTime' = Some(live)
                \/ /\ currentNodeId' # Null /\ currentNodeId' \in DOMAIN nodes'
                   /\ generationTime' = nodes'[currentNodeId'].generationTime
      ]_vars

\* C1's case: an epoch that ran for a node has been cancelled by a switch to
\* another topic, its requests still deliver, and the newest epoch's content
\* is on display.
C1_StaleEpochBesideLive ==
    \E e \in DOMAIN epochs :
        /\ epochs[e].isCancelled
        /\ epochs[e].nodeId # Null
        /\ effectEpoch > e
        /\ epochs[effectEpoch].topic # epochs[e].topic
        /\ cards # <<>>
        /\ CardAtoms(cards) \subseteq EpochAtoms(effectEpoch)

\* The epochs that ran for node id.
EpochsOf(id) == {e \in DOMAIN epochs : epochs[e].nodeId = id}

\* C2 (no cache poisoning): while no modify has been started, the cards and
\* the art in a node's cache were produced by a generation epoch that ran
\* for that node.
C2_NoCachePoisoning ==
    modifies = <<>> =>
        \A id \in DOMAIN nodes :
            /\ IsSome(nodes[id].cachedCards) =>
                 CardAtoms(Val(nodes[id].cachedCards))
                     \subseteq UNION {EpochAtoms(e) : e \in EpochsOf(id)}
            /\ IsSome(nodes[id].cachedAsciiArt) =>
                 \E e \in EpochsOf(id) :
                     \/ Val(nodes[id].cachedAsciiArt).art \in ArtTexts(e)
                     \/ nodes[id].cachedAsciiArt = Some(createFallbackArt(epochs[e].topic))

\* C3 (cache short-circuit, no network): a step that makes a fully cached
\* node the current node starts no generation epoch and sends no
\* related-questions request.
C3_CacheHitNoNetwork ==
    [][(/\ currentNodeId' # currentNodeId
        /\ currentNodeId' # Null
        /\ currentNodeId' \in DOMAIN nodes
        /\ isFullyCached(nodes[currentNodeId']))
       => /\ Len(epochs') = Len(epochs)
          /\ rqInFlight' <= rqInFlight
      ]_vars

\* The current node is fully cached and the page shows its cache.
CacheShown ==
    /\ currentNodeId # Null
    /\ currentNodeId \in DOMAIN nodes
    /\ isFullyCached(nodes[currentNodeId])
    /\ cards = Val(nodes[currentNodeId].cachedCards)
    /\ asciiArt = nodes[currentNodeId].cachedAsciiArt

\* C4 (cache short-circuit, exact reproduction): a step that makes a fully
\* cached node current leaves its cached cards and art on display, loading
\* false and no error; and a step that is no user action, taken while the
\* page shows the current node's cache after such a load, leaves the page
\* showing it.
C4_CacheReproduced ==
    [][/\ (/\ currentNodeId' # currentNodeId
           /\ currentNodeId' # Null
           /\ currentNodeId' \in DOMAIN nodes
           /\ isFullyCached(nodes[currentNodeId']))
          => /\ cards' = Val(nodes[currentNodeId'].cachedCards)
             /\ asciiArt' = nodes[currentNodeId'].cachedAsciiArt
             /\ ~isLoading'
             /\ error' = None
       /\ (CacheShown /\ effectEpoch = 0 /\ ~UserStep)
          => /\ cards' = cards
             /\ asciiArt' = asciiArt
      ]_vars

\* C5 (commit after both flows): while the art request of the current epoch
\* of a node is still streaming, the node has no cache.
C5_CommitAfterBothFlows ==
    \A e \in DOMAIN epochs :
        (/\ e = effectEpoch
         /\ epochs[e].ascii = "streaming"
         /\ epochs[e].nodeId # Null
         /\ epochs[e].nodeId \in DOMAIN nodes)
        => ~IsSome(nodes[epochs[e].nodeId].cachedCards)

Payload(node) == <<node.cachedCards, node.cachedAsciiArt, node.generationTime>>

\* C6 (write-once cache): a step changes the cached cards, art or generation
\* time of a node whose cache is populated only when it is the timer of a
\* modify call.
C6_WriteOnceCache ==
    [][\A id \in DOMAIN nodes \cap DOMAIN nodes' :
           (IsSome(nodes[id].cachedCards) /\ Payload(nodes'[id]) # Payload(nodes[id]))
           => \E m \in DOMAIN modifies :
                  modifies[m].status = "timer" /\ modifies'[m].status = "done"
      ]_vars

\* C6's case: a node's cache is populated while the requests of its own
\* epoch, the current one, still deliver.
C6_CachedWhileStreaming ==
    /\ effectEpoch # 0
    /\ epochs[effectEpoch].nodeId = currentNodeId
    /\ epochs[effectEpoch].ascii = "streaming"
    /\ currentNodeId # Null
    /\ currentNodeId \in DOMAIN nodes
    /\ isFullyCached(nodes[currentNodeId])

\* C7 (content-flow failure): the step in which the content flow of the
\* current epoch fails leaves the cards empty, the error set and loading
\* false; and while that epoch stays the current one, its node, cold when
\* the flow failed, stays cold.
C7_ContentFailure ==
    [][\A e \in DOMAIN epochs :
           /\ (e = effectEpoch' /\ epochs[e].content # "failed" /\ epochs'[e].content = "failed")
              => /\ cards' = <<>>
                 /\ error' = Some(ContentError(epochs[e].topic))
                 /\ ~isLoading'
           /\ (/\ e = effectEpoch /\ e = effectEpoch'
               /\ epochs[e].content = "failed"
               /\ epochs[e].nodeId # Null
               /\ epochs[e].nodeId \in DOMAIN nodes \cap DOMAIN nodes'
               /\ ~IsSome(nodes[epochs[e].nodeId].cachedCards))
              => ~IsSome(nodes'[epochs[e].nodeId].cachedCards)
      ]_vars

\* C8 (art failure is never surfaced): the step in which the art request of
\* the current epoch fails changes neither the error nor the cards, does not
\* crash the page, and puts the fallback box of the current topic on display.
C8_ArtFailureSilent ==
    [][\A e \in DOMAIN epochs :
           (e = effectEpoch' /\ epochs[e].ascii = "streaming" /\ epochs'[e].ascii = "failed")
           => /\ error' = error
              /\ cards' = cards
              /\ phase' = phase
              /\ asciiArt' = Some(createFallbackArt(currentTopic'))
      ]_vars

\* C8's case: the art request of the current epoch has failed while cards
\* are on display.
C8_FallbackBesideCards ==
    /\ effectEpoch # 0
    /\ epochs[effectEpoch].ascii = "failed"
    /\ cards # <<>>
    /\ error = None

\* C9 (createFallbackArt): the art has exactly three lines; with T the topic
\* when it has at most 20 characters and else its first 17 characters and
\* "...", the middle line is the vertical bar, a blank, T, a blank, the
\* vertical bar, and each border has length(T)+2 horizontal bars between its
\* corners, so the three lines are equally long; for "Hypertext" the middle
\* line holds the topic between single blanks.
C9_FallbackBox ==
    IsSome(asciiArt) =>
        LET T == IF Len(currentTopic) <= 20
                 THEN currentTopic
                 ELSE SubSeq(currentTopic, 1, 17) \o <<".", ".", ".">>
            lines == splitLines(Val(asciiArt).art)
            bars == [i \in 1..(Len(T) + 2) |-> Horizontal]
        IN  /\ Len(lines) = 3
            /\ lines[1] = <<TopLeft>> \o bars \o <<TopRight>>
            /\ lines[2] = <<Vertical, " ">> \o T \o <<" ", Vertical>>
            /\ lines[3] = <<BottomLeft>> \o bars \o <<BottomRight>>
            /\ Len(lines[1]) = Len(lines[2])
            /\ Len(lines[3]) = Len(lines[2])
            /\ currentTopic = Hypertext =>
                 lines[2] = <<Vertical, " ">> \o Hypertext \o <<" ", Vertical>>

\* C9's case: the fallback of a topic longer than 20 characters is shown.
C9_LongTopicShown == IsSome(asciiArt) /\ Len(currentTopic) > 20

\* How often id occurs in the list ids.
Occurrences(ids, id) == Cardinality({i \in DOMAIN ids : ids[i] = id})

\* C10 (addTopic, any parentId): every node's parentId is null or the id of
\* a node of the history, whose children list holds the node's id exactly
\* once.
C10_ParentLinks ==
    \A id \in DOMAIN nodes :
        \/ nodes[id].parentId = Null
        \/ /\ nodes[id].parentId \in DOMAIN nodes
           /\ Occurrences(nodes[nodes[id].parentId].children, id) = 1

\* How often id is listed as a child, over all nodes.
RECURSIVE ChildListings(_, _)
ChildListings(ids, id) ==
    IF ids = {} THEN 0
    ELSE LET p == CHOOSE x \in ids : TRUE
         IN  Occurrences(nodes[p].children, id) + ChildListings(ids \ {p}, id)

\* C11 (one place per node): every node is listed exactly once, in
\* rootNodeIds and in no children list when its parentId is null, and else in
\* its parent's children list, in no other children list and not in
\* rootNodeIds; and every id listed in rootNodeIds or in a children list is
\* the id of a node.
C11_OnePlacePerNode ==
    /\ \A id \in DOMAIN nodes :
         IF nodes[id].parentId = Null
         THEN /\ Occurrences(rootNodeIds, id) = 1
              /\ ChildListings(DOMAIN nodes, id) = 0
         ELSE /\ nodes[id].parentId \in DOMAIN nodes
              /\ Occurrences(nodes[nodes[id].parentId].children, id) = 1
              /\ ChildListings(DOMAIN nodes, id) = 1
              /\ Occurrences(rootNodeIds, id) = 0
    /\ Range(rootNodeIds) \subseteq DOMAIN nodes
    /\ \A p \in DOMAIN nodes : Range(nodes[p].children) \subseteq DOMAIN nodes

\* C12 (unique ids): every addTopic call, for any topic and any
\* non-decreasing clock reading, yields an id no node has yet, and the number
\* of nodes grows by exactly one.
C12_UniqueIds ==
    [][/\ currentNodeId' \notin DOMAIN nodes
       /\ Cardinality(DOMAIN nodes') = Cardinality(DOMAIN nodes) + 1
      ]_vars

\* Number of parent links between a node and its root.
RECURSIVE Depth(_)
Depth(id) ==
    IF nodes[id].parentId = Null \/ nodes[id].parentId \notin DOMAIN nodes
    THEN 0
    ELSE 1 + Depth(nodes[id].parentId)

\* The consecutive elements of a path are parent and child.
Linked(path) == \A i \in 1..(Len(path) - 1) : path[i + 1].parentId = path[i].id

\* C13 (node path), amended: for every node id in the tree,
\* getNodePath(nodeId) returns a sequence that begins at a root node (parentId
\* null), ends at the node nodeId, follows the parent links in between and has
\* length depth + 1; for a root node it is the single-element sequence of
\* that node.
C13_PathRootFirst ==
    \A id \in DOMAIN nodes :
        LET path == getNodePath(World, id)
        IN  /\ Len(path) = Depth(id) + 1
            /\ path[1].parentId = Null
            /\ path[Len(path)] = nodes[id]
            /\ Linked(path)
            /\ nodes[id].parentId = Null => path = <<nodes[id]>>

\* C13 as stated: for every node id in the tree, getNodePath(nodeId) returns a
\* sequence beginning at nodeId and ending in a root node, of length
\* depth + 1.
C13_PathLeafFirst ==
    \A id \in DOMAIN nodes :
        LET path == getNodePath(World, id)
        IN  /\ Len(path) = Depth(id) + 1
            /\ path[1] = nodes[id]
            /\ path[Len(path)].parentId = Null

\* C13's case: the tree holds a node below a root, whose path has two elements.
C13_PathOfChild ==
    \E id \in DOMAIN nodes :
        /\ nodes[id].parentId # Null
        /\ Len(getNodePath(World, id)) = 2

\* The previous topic a generation of node id is to be given.
ParentTopic(id) ==
    IF id = Null \/ nodes[id].parentId = Null
    THEN None
    ELSE Some(nodes[nodes[id].parentId].topic)

\* C14 (previous topic): getNodePath lists the ancestors from the root down to
\* the node, and the previous topic of every generation epoch is the topic of
\* the immediate parent of the epoch's node when that node is not a root, and
\* is null when the node is a root or the epoch has no node.
C14_PreviousTopicIsParent ==
    /\ \A id \in DOMAIN nodes :
         LET path == getNodePath(World, id)
         IN  /\ path[Len(path)].id = id
             /\ Len(path) > 1 => path[Len(path) - 1].id = nodes[id].parentId
    /\ \A e \in DOMAIN epochs :
         epochs[e].nodeId = Null \/ epochs[e].nodeId \in DOMAIN nodes
             => epochs[e].previousTopic = ParentTopic(epochs[e].nodeId)

\* C14's case: a generation runs for a node below a root and was given a
\* previous topic, beside an epoch of a root that was given none.
C14_ChildEpochBesideRootEpoch ==
    \E e, f \in DOMAIN epochs :
        /\ epochs[e].nodeId \in DOMAIN nodes
        /\ nodes[epochs[e].nodeId].parentId # Null
        /\ IsSome(epochs[e].previousTopic)
        /\ epochs[f].nodeId \in DOMAIN nodes
        /\ nodes[epochs[f].nodeId].parentId = Null
        /\ epochs[f].previousTopic = None

\* Payloads of updateNodeContent: what is on screen, with each optional field
\* present or undefined.
ContentPayloads ==
    [cards : {None, Some(cards)},
     asciiArt : {None, asciiArt},
     generationTime : {None, generationTime},
     totalInputWords : {None, Some(Len(cards))},
     totalOutputWords : {None}]

\* C15 (idempotent cache write): for every node id, known or unknown, and
\* every payload, updateNodeContent applied twice in succession leaves nodes,
\* currentNodeId and rootNodeIds as one application does; one application
\* stores the payload in a known node and changes nothing for an unknown id.
C15_UpdateIdempotent ==
    \A id \in DOMAIN nodes \cup {GhostId} : \A content \in ContentPayloads :
        LET once == updateNodeContent(World, id, content)
            twice == updateNodeContent(once, id, content)
        IN  /\ twice = once
            /\ id \notin DOMAIN nodes => once = World
            /\ id \in DOMAIN nodes =>
                 /\ Payload(once.nodes[id]) =
                        <<content.cards, content.asciiArt, content.generationTime>>
                 /\ once.nodes[id].totalInputWords = content.totalInputWords

\* C15's case: a node holds cached cards while other cards are on screen, so
\* that a write replaces a populated cache.
C15_CacheBesideOtherCards ==
    \E id \in DOMAIN nodes :
        /\ IsSome(nodes[id].cachedCards)
        /\ Len(cards) > 0
        /\ nodes[id].cachedCards # Some(cards)

\* C16 (navigation frame): for every id, navigateToNode(id) makes id the
\* current node when id is a key of nodes and changes nothing when it is not;
\* nodes and rootNodeIds stay as they were in both cases, also through the
\* handler of the outline, and currentNodeId is null or names a node.
C16_NavigateFrame ==
    /\ currentNodeId = Null \/ currentNodeId \in DOMAIN nodes
    /\ \A id \in DOMAIN nodes \cup {GhostId} :
         LET moved == navigateToNode(World, World, id)
             handled == handleNavigateToHistoryNode(World, id)
         IN  /\ moved.nodes = nodes /\ moved.rootNodeIds = rootNodeIds
             /\ handled.nodes = nodes /\ handled.rootNodeIds = rootNodeIds
             /\ id \in DOMAIN nodes =>
                  /\ moved = [World EXCEPT !.currentNodeId = id]
                  /\ handled.currentNodeId = id
             /\ id \notin DOMAIN nodes => moved = World /\ handled = World

\* C16's case: the current node is older than another node of the tree, which
\* only a navigation brings about.
C16_NavigatedBack ==
    /\ currentNodeId \in DOMAIN nodes
    /\ \E id \in DOMAIN nodes : nodes[id].timestamp > nodes[currentNodeId].timestamp

\* The node of stream record r was cleared while the stream was in flight.
Orphaned(r) == r.nodeId # Null /\ r.nodeId \notin DOMAIN nodes

\* C17 (clear is final): in every state clearHistory yields the empty
\* navigation state and touches nothing else; the step that empties nodes
\* leaves no current node and no root; while the history is empty no event
\* other than a user's new topic creates a node; and no event of a modify
\* stream whose node was cleared changes nodes.
C17_ClearIsFinal ==
    [][/\ clearHistory(World) =
              [World EXCEPT !.nodes = <<>>, !.currentNodeId = Null, !.rootNodeIds = <<>>]
       /\ nodes # <<>> /\ nodes' = <<>> => currentNodeId' = Null /\ rootNodeIds' = <<>>
       /\ nodes = <<>> /\ phase = "mounted" /\ now' = now =>
              nodes' = <<>> /\ currentNodeId' = Null /\ rootNodeIds' = <<>>
       /\ \A m \in DOMAIN modifies :
              Orphaned(modifies[m]) /\ modifies'[m] # modifies[m] => nodes' = nodes
      ]_vars

\* C18 (random non-repetition): for every drawn index and every current
\* topic, handleRandom adds one new root node and makes it current, its topic
\* being the drawn word, or the next entry of the list (the first one after
\* the last) when the drawn word is the current topic in any letter case; the
\* new topic differs from the current topic in every letter case.
C18_RandomNeverRepeats ==
    \A randomIndex \in 0..(Len(UNIQUE_WORDS) - 1) :
        LET after == handleRandom(World, randomIndex, now + 1)
            drawn == UNIQUE_WORDS[randomIndex + 1]
            next == IF randomIndex + 1 = Len(UNIQUE_WORDS)
                    THEN UNIQUE_WORDS[1]
                    ELSE UNIQUE_WORDS[randomIndex + 2]
            chosen == IF toLowerCase(drawn) = toLowerCase(currentTopic) THEN next ELSE drawn
            id == NodeId(chosen, now + 1)
        IN  /\ after.currentTopic = chosen
            /\ toLowerCase(after.currentTopic) # toLowerCase(currentTopic)
            /\ after.currentNodeId = id
            /\ id \notin DOMAIN nodes
            /\ DOMAIN after.nodes = DOMAIN nodes \cup {id}
            /\ after.nodes[id].topic = chosen
            /\ after.nodes[id].parentId = Null
            /\ after.rootNodeIds = Append(rootNodeIds, id)

\* C18's case: a random topic was created and is the last entry of the list,
\* so that drawing it again wraps to the first entry.
C18_AtLastWord ==
    /\ now >= 1
    /\ currentTopic = UNIQUE_WORDS[Len(UNIQUE_WORDS)]
    /\ currentNodeId = NodeId(currentTopic, now)
    /\ handleRandom(World, Len(UNIQUE_WORDS) - 1, now + 1).currentTopic = UNIQUE_WORDS[1]

Received == SubSeq(transport.wire, 1, transport.read)

EndedLines(text) ==
    LET lines == splitLines(text)
    IN  SubSeq(lines, 1, Len(lines) - 1)

IsSentinelLine(line) == line = <<DataField, Space, Sentinel>>

\* The lines before the first sentinel line.
BeforeSentinel(lines) ==
    IF \E i \in DOMAIN lines : IsSentinelLine(lines[i])
    THEN LET i == CHOOSE j \in DOMAIN lines :
                      /\ IsSentinelLine(lines[j])
                      /\ \A k \in 1..(j - 1) : ~IsSentinelLine(lines[k])
         IN  SubSeq(lines, 1, i - 1)
    ELSE lines

\* A `data: ` line whose payload parses as JSON with a non-empty delta.
CarriesDelta(line) ==
    /\ startsWithData(line)
    /\ IsSome(parseContent(slice6(line)))
    /\ Val(parseContent(slice6(line))) # <<>>

\* The deltas of the lines that carry one, in order.
DeltasOf(lines) ==
    LET carrying == SelectSeq(lines, CarriesDelta)
    IN  [i \in DOMAIN carrying |-> Val(parseContent(slice6(carrying[i])))]

\* C20 (transport framing): at every moment the fragments yielded are, in
\* order, the deltas of the `data: ` lines received so far, up to their line
\* end, that carry a non-empty delta and stand before the first sentinel line;
\* once the generator has ended they are those of the whole body, whatever
\* follows the sentinel in the same or in later chunks; the generator returns
\* only at a sentinel line.
C20_TransportFraming ==
    /\ transport.yielded = DeltasOf(BeforeSentinel(EndedLines(Received)))
    /\ transport.state \in {"returned", "done"} =>
         transport.yielded = DeltasOf(BeforeSentinel(EndedLines(transport.wire)))
    /\ transport.state = "returned" <=>
         /\ transport.state \notin {"fetching", "thrown"}
         /\ \E i \in DOMAIN EndedLines(Received) : IsSentinelLine(EndedLines(Received)[i])

\* C20's case: the generator returned at the sentinel, with more of the
\* body still to come, after it skipped a line that does not parse and
\* yielded the delta of a line behind it, and a line with a delta follows the
\* sentinel.
C20_SkippedYieldedStopped ==
    LET lines == EndedLines(transport.wire)
    IN  /\ transport.state = "returned"
        /\ transport.read < Len(transport.wire)
        /\ transport.yielded # <<>>
        /\ \E i, j, k, l \in DOMAIN lines :
             /\ i < j /\ j < k /\ k < l
             /\ lines[i] = <<DataField, Space, Malformed>>
             /\ CarriesDelta(lines[j])
             /\ IsSentinelLine(lines[k])
             /\ CarriesDelta(lines[l])

\* The application once mounted, before any stream event, seen from a state
\* where it has not rendered yet.
Mounted == Flush(World, [mountEffects(World, 1) EXCEPT !.phase = "mounted"])

HardFailure(t) ==
    /\ t.entry \in Streaming
    /\ t.state = "thrown"
    /\ t.thrown \in {Some(ApiError), Some(NoReader)}

\* C21 (transport hard failure): a streaming request whose response is not
\* ok, or has no readable body, throws before it yields: no fragment was
\* yielded and onChunk was never called, exactly one request was made, and
\* the exported generator rejects once, the content generator with its
\* wrapped message and the art generator with the error itself; the content
\* flow turns that rejection into the error state with no cards, the art
\* flow into the fallback art.  A request that got as far as reading had an
\* ok response with a readable body.
C21_HardFailureYieldsNothing ==
    LET t == transport
        w == Mounted
        e == w.effectEpoch
        topic == w.epochs[e].topic
        failedContent == streamContentFinally(streamContentCatch(w, e), e)
        failedArt == asciiCatch(w, e)
    IN  /\ HardFailure(t) =>
              /\ t.yielded = <<>> /\ t.calls = <<>> /\ t.read = 0
              /\ t.fetches = 1
              /\ IsSome(t.outcome) /\ Val(t.outcome).kind = "rejected"
              /\ t.entry = "generateContentCardsStream" =>
                    /\ Val(t.outcome).error = <<ContentError(topic).msg, Val(t.thrown)>>
                    /\ ~w.epochs[e].isCancelled
                    /\ failedContent.error = Some(ContentError(topic))
                    /\ failedContent.cards = <<>>
                    /\ failedContent.asciiArt = w.asciiArt
              /\ t.entry \in {"generateAsciiArtStream", "generateAsciiArt"} =>
                    /\ Val(t.outcome).error = <<Val(t.thrown)>>
                    /\ failedArt.asciiArt = Some(createFallbackArt(topic))
                    /\ failedArt.error = w.error /\ failedArt.cards = w.cards
        /\ (t.entry \in Streaming /\ t.state \in {"reading", "returned", "done"}) =>
              t.ok /\ t.readable

\* A response with deltas in a body that has no reader, asked for by the art
\* generator.
C21_BodyWithoutReader ==
    /\ HardFailure(transport)
    /\ transport.thrown = Some(NoReader)
    /\ transport.entry = "generateAsciiArtStream"
    /\ \E i \in DOMAIN transport.wire : transport.wire[i] \in DeltaJson

\* C22 (missing credential fails fast): a call of any exported generator made
\* with no API key never calls fetch, never calls onChunk, and once it has run
\* its promise is rejected with the error that names the missing key.
C22_NoKeyNoRequest ==
    ~transport.apiKey =>
        /\ transport.entry \in EntryPoints
        /\ transport.fetches = 0
        /\ transport.calls = <<>> /\ transport.yielded = <<>>
        /\ transport.state \in {"called", "settled"}
        /\ transport.state = "settled" =>
              transport.outcome = Some(Rejected(<<KeyError(transport.entry)>>))

\* The batch of related questions asked for no words and with no key: it is
\* rejected, the early return for no words is not reached.
C22_RejectedBatchOfNothing ==
    /\ ~transport.apiKey
    /\ transport.entry = "generateBatchRelatedQuestions"
    /\ transport.noWords
    /\ transport.state = "settled"
    /\ Val(transport.outcome).kind = "rejected"

\* C23 (modify replaces the cached cards): in the step in which the timer of
\* a modify call that ended well runs, while the node the call was made on is
\* still the current one and shows the cards the modify stream produced, that
\* node's cached cards become the displayed cards, and its cached art and
\* generation time stay what they were.
C23_ModifyReplacesCache ==
    [][\A m \in DOMAIN modifies :
         LET N == modifies[m].nodeId
         IN  (/\ modifies[m].status = "timer"
              /\ modifies'[m].status = "done"
              /\ N # Null /\ N = currentNodeId /\ N \in DOMAIN nodes
              /\ cards # <<>> /\ CardAtoms(cards) \subseteq ModifyAtoms(m))
             => /\ N \in DOMAIN nodes'
                /\ nodes'[N].cachedCards = Some(cards)
                /\ nodes'[N].cachedAsciiArt = nodes[N].cachedAsciiArt
                /\ nodes'[N].generationTime = nodes[N].generationTime]_vars

\* C24 (the current node is the displayed topic's): once the application is
\* mounted, and so the first node has been created, currentNodeId is not null,
\* names a node of the tree, and that node's topic is the displayed topic.
C24_CurrentNodeIsDisplayedTopic ==
    phase = "mounted" =>
        /\ currentNodeId # Null
        /\ currentNodeId \in DOMAIN nodes
        /\ nodes[currentNodeId].topic = currentTopic

\* The nodes whose generation the epochs from number first on were started for.
GeneratedNodes(eps, first) ==
    {eps[e].nodeId : e \in first..Len(eps)} \ {Null}

RECURSIVE SumPrompts(_, _)
SumPrompts(eps, ids) ==
    IF ids = {} THEN 0
    ELSE LET id == CHOOSE n \in ids : TRUE
             e == CHOOSE k \in DOMAIN eps : eps[k].nodeId = id
         IN  contentPromptWords(eps[e].previousTopic) + SumPrompts(eps, ids \ {id})

\* C25 (no double count across cancelled epochs): in every step, the input
\* total grows by the content prompt estimate once for each node whose
\* generation the step started, however many epochs it started (the epoch
\* started at mount before the node exists included), and by the art prompt
\* estimate when the art of the live epoch ended; the output total grows only
\* by what the live epoch received in the step.  A step in which no epoch
\* starts and the live epoch receives nothing, such as an event of a
\* cancelled epoch, leaves both totals as they were.
C25_WordsCountedOnce ==
    [][LET before == Val(wordTotals)
           after == Val(wordTotals')
           live == effectEpoch
           proceeds == /\ live # 0 /\ effectEpoch' = live /\ Len(epochs') = Len(epochs)
                       /\ ~epochs'[live].isCancelled
           artEnded == proceeds /\ epochs[live].ascii = "streaming"
                                /\ epochs'[live].ascii = "done"
           received == proceeds /\ epochs'[live].sent = epochs[live].sent + 1
       IN  /\ after.input - before.input =
                 SumPrompts(epochs', GeneratedNodes(epochs', Len(epochs) + 1))
                   + (IF artEnded THEN ArtPromptWords ELSE 0)
           /\ after.output - before.output =
                 (IF artEnded THEN splitLength(epochs[live].asciiBuffer) ELSE 0)
                   + (IF received THEN countWords(Delta(live, epochs'[live].sent)) ELSE 0)
      ]_vars

\* C26 (the commit stores word counts): every node whose cache holds cards
\* holds, beside them, the art, the generation time, and the input and
\* output word counts of its generation.
C26_CommitStoresWordCounts ==
    \A id \in DOMAIN nodes :
        IsSome(nodes[id].cachedCards) =>
            /\ IsSome(nodes[id].cachedAsciiArt)
            /\ IsSome(nodes[id].generationTime)
            /\ IsSome(nodes[id].totalInputWords)
            /\ IsSome(nodes[id].totalOutputWords)

Separators(events) == Len(SelectSeq(events, LAMBDA c : c.type = "separator"))

RECURSIVE AllContent(_)
AllContent(cs) == IF cs = <<>> THEN <<>> ELSE Head(cs).content \o AllContent(Tail(cs))

RECURSIVE DeltasUpTo(_, _)
DeltasUpTo(e, n) == IF n = 0 THEN <<>> ELSE DeltasUpTo(e, n - 1) \o Delta(e, n)

StartsWith(text, start) ==
    Len(start) <= Len(text) /\ SubSeq(text, 1, Len(start)) = start

\* C28 (displayed content only grows): in every step taken while the content
\* stream of the live epoch is streaming, and which neither cancels the epoch
\* nor fails its stream, the displayed cards do not become fewer and each
\* card's content begins with what it was; the contents of the cards, one
\* after the other, are the deltas received so far in their order, and so
\* are they when the stream ends.
C28_ContentOnlyGrows ==
    [][LET live == effectEpoch
       IN  (/\ live # 0 /\ effectEpoch' = live
            /\ ~epochs[live].isCancelled /\ ~epochs'[live].isCancelled
            /\ epochs[live].content = "streaming"
            /\ epochs'[live].content # "failed")
           => /\ Len(cards') >= Len(cards)
              /\ \A i \in DOMAIN cards : StartsWith(cards'[i].content, cards[i].content)
              /\ AllContent(cards') = DeltasUpTo(live, epochs'[live].sent)
      ]_vars

\* What the callbacks of the streams of epoch e make of the state.
ContentFlowEnds(e) ==
    {streamContentFinally(World, e), streamContentFinally(streamContentCatch(World, e), e)}

ArtFlowEvents(e) ==
    {handleAsciiChunk(World, e, ArtDelta(e, 1)), asciiThen(World, e), asciiCatch(World, e)}

\* C29 (loading ends with the content flow): in the step in which the content
\* stream of the live epoch ends or fails, isLoading becomes false and the
\* generation time of that epoch is recorded, whatever the state of its art
\* stream; a step of the art stream of the live epoch leaves isLoading as it
\* is, and so does each of its callbacks; every callback of a cancelled
\* epoch leaves isLoading and generationTime as they are.
C29_LoadingEndsWithContent ==
    [][LET live == effectEpoch
           proceeds == /\ live # 0 /\ effectEpoch' = live /\ Len(epochs') = Len(epochs)
                       /\ ~epochs[live].isCancelled /\ ~epochs'[live].isCancelled
       IN  /\ (proceeds /\ epochs[live].content = "streaming"
                         /\ epochs'[live].content \in {"done", "failed"})
                 => isLoading' = FALSE /\ generationTime' = Some(live)
           /\ (proceeds /\ epochs'[live].content = epochs[live].content
                         /\ epochs'[live].sent = epochs[live].sent
                         /\ \/ epochs'[live].ascii # epochs[live].ascii
                            \/ epochs'[live].asciiBuffer # epochs[live].asciiBuffer)
                 => isLoading' = isLoading
           /\ \A e \in DOMAIN epochs :
                 /\ \A w \in ArtFlowEvents(e) : w.isLoading = isLoading
                 /\ epochs[e].isCancelled =>
                       \A w \in ContentFlowEnds(e) \cup ArtFlowEvents(e)
                                  \cup {contentDelta(World, e, Delta(e, 1))} :
                           w.isLoading = isLoading /\ w.generationTime = generationTime
      ]_vars

\* The content stream of the live epoch has failed while its art is still
\* streaming, and the loading is over.
C29_LoadedWhileArtStreams ==
    /\ effectEpoch # 0
    /\ ~epochs[effectEpoch].isCancelled
    /\ epochs[effectEpoch].content = "failed"
    /\ epochs[effectEpoch].ascii = "streaming"
    /\ ~isLoading /\ generationTime = Some(effectEpoch)

\* The walk along parentId from id comes to a node without parent in at most
\* hops steps.
RECURSIVE ReachesRoot(_, _, _)
ReachesRoot(ns, id, hops) ==
    /\ id \in DOMAIN ns
    /\ \/ ns[id].parentId = Null
       \/ hops > 0 /\ ReachesRoot(ns, ns[id].parentId, hops - 1)

\* C30 (the tree is acyclic): when every parentId is null or the id of a
\* node, the walk along parentId from any node comes to a node whose parentId
\* is null in no more steps than there are nodes, so that the loop of
\* getNodePath ends.
C30_Acyclic ==
    (\A id \in DOMAIN nodes : nodes[id].parentId \in DOMAIN nodes \cup {Null})
        => \A id \in DOMAIN nodes : ReachesRoot(nodes, id, Cardinality(DOMAIN nodes))

\* The fields of a node that addTopic must leave alone.
Identity(node) ==
    [id |-> node.id, topic |-> node.topic, timestamp |-> node.timestamp,
     parentId |-> node.parentId, cachedCards |-> node.cachedCards,
     cachedAsciiArt |-> node.cachedAsciiArt, generationTime |-> node.generationTime]

\* C31 (addTopic only appends): every addTopic call makes the new node
\* current, puts its id at the end of rootNodeIds when its parentId is null
\* and at the end of the parent's children when the parent is a node, keeps
\* every node there was with its id, topic, timestamp, parentId and cache,
\* and keeps the children lists and the root list as the beginnings of the
\* new ones.
C31_AddTopicOnlyAppends ==
    [][LET id == currentNodeId'
           parentId == nodes'[id].parentId
       IN  /\ id \in DOMAIN nodes'
           /\ \A old \in DOMAIN nodes :
                 /\ old \in DOMAIN nodes'
                 /\ Identity(nodes'[old]) = Identity(nodes[old])
                 /\ StartsWith(nodes'[old].children, nodes[old].children)
                 /\ old # parentId => nodes'[old].children = nodes[old].children
           /\ StartsWith(rootNodeIds', rootNodeIds)
           /\ IF parentId = Null
              THEN rootNodeIds' = Append(rootNodeIds, id)
              ELSE /\ rootNodeIds' = rootNodeIds
                   /\ parentId \in DOMAIN nodes =>
                         nodes'[parentId].children = Append(nodes[parentId].children, id)
      ]_vars

\* Words and queries that are blank, or the displayed topic in another case
\* and between blanks.
SelfAndEmpty ==
    {<<>>, <<" ", " ">>, currentTopic, <<" ">> \o toLowerCase(currentTopic) \o <<" ">>}

\* C32 (self-loop and empty topic are rejected): in every state of the
\* mounted application, a word click or a search with a blank topic, or with
\* the displayed topic in any case and between blanks, changes nothing: no
\* node is added, currentNodeId and rootNodeIds stay, no epoch is started and
\* the running epoch is not cancelled.
C32_SelfAndEmptyAreNoOps ==
    phase = "mounted" =>
        LET world == World
        IN  \A word \in SelfAndEmpty, t \in ClockReadings :
                \A w \in {handleWordClick(world, word, t), handleSearch(world, word, t)} :
                    LET rendered == IF w = world THEN w ELSE Flush(world, w)
                    IN  /\ rendered.nodes = nodes
                        /\ rendered.currentNodeId = currentNodeId
                        /\ rendered.rootNodeIds = rootNodeIds
                        /\ rendered.epochs = epochs
                        /\ rendered.effectEpoch = effectEpoch
                        /\ rendered = world

\* A word is on display while the generation of the displayed topic runs:
\* the click on the topic's own name finds an epoch to leave alone.
C32_ClickableWhileStreaming ==
    /\ phase = "mounted"
    /\ clickableShown
    /\ currentTopic = Balance
    /\ effectEpoch # 0
    /\ ~epochs[effectEpoch].isCancelled
    /\ epochs[effectEpoch].ascii = "streaming"
    /\ currentNodeId # Null

\* C33 (modify streams respect topic switches): in every step taken while a
\* modify stream is running whose node is no longer the current one, no
\* fragment of that stream appears in the displayed cards, and none appears
\* in the cache of another node.
C33_ModifyRespectsSwitch ==
    [][\A m \in DOMAIN modifies :
         (/\ modifies[m].status = "streaming"
          /\ modifies[m].nodeId # currentNodeId
          /\ m \in DOMAIN modifies')
         => /\ (CardAtoms(cards') \cap ModifyAtoms(m)) \subseteq CardAtoms(cards)
            /\ \A id \in DOMAIN nodes' \ {modifies[m].nodeId} :
                  (CardAtoms(CachedCardsOf(nodes', id)) \cap ModifyAtoms(m))
                      \subseteq CardAtoms(CachedCardsOf(nodes, id))
      ]_vars

\* The cache of a node.
CacheOf(node) ==
    [cachedCards |-> node.cachedCards, cachedAsciiArt |-> node.cachedAsciiArt,
     generationTime |-> node.generationTime]

\* C34 (modify failure is non-destructive): in the step in which a modify
\* stream fails, the displayed cards become the cached cards the node had
\* when the modify was asked for, the error message is set, the modifying
\* flag becomes false, and the cache of the node the modify was made on stays
\* as it is; and while the modifying flag is true a call of handleAIModify
\* changes nothing.
C34_ModifyFailureRestores ==
    [][/\ \A m \in DOMAIN modifies :
            (modifies[m].status = "streaming" /\ modifies'[m].status = "failed")
            => LET N == modifies[m].nodeId
               IN  /\ cards' = Val(modifies[m].cachedCards)
                   /\ cards' # <<>>
                   /\ error' = Some(ModifyError)
                   /\ ~isAIModifying'
                   /\ N \in DOMAIN nodes =>
                         N \in DOMAIN nodes' /\ CacheOf(nodes'[N]) = CacheOf(nodes[N])
       /\ isAIModifying => handleAIModify(World) = World
      ]_vars

\* A modify stream has failed after the display showed its text: the cached
\* cards are back on display under the error message.
C34_RestoredAfterFailure ==
    /\ \E m \in DOMAIN modifies : modifies[m].status = "failed"
    /\ error = Some(ModifyError)
    /\ ~isAIModifying
    /\ currentNodeId # Null /\ currentNodeId \in DOMAIN nodes
    /\ Some(cards) = nodes[currentNodeId].cachedCards

\* C35 (no partial caches): every node has cached cards exactly when it has
\* cached art, and cached cards are a list that is not empty.
C35_NoPartialCaches ==
    \A id \in DOMAIN nodes :
        /\ IsSome(nodes[id].cachedCards) <=> IsSome(nodes[id].cachedAsciiArt)
        /\ IsSome(nodes[id].cachedCards) => Val(nodes[id].cachedCards) # <<>>

\* A node committed by the background commit, and rewritten by the timer of
\* a modify.
C35_CachedAndModified ==
    /\ \E m \in DOMAIN modifies : modifies[m].status = "done"
    /\ \E id \in DOMAIN nodes :
         IsSome(nodes[id].cachedCards) /\ IsSome(nodes[id].cachedAsciiArt)

\* C36 (at most one live epoch): at most one generation epoch has its
\* isCancelled unset; a step that changes currentTopic or currentNodeId, or
\* that starts an epoch, leaves every epoch there was before it cancelled;
\* and a flag that is set stays set.
LiveEpochs(es) == {e \in DOMAIN es : ~es[e].isCancelled}

C36_AtMostOneLiveEpoch ==
    [][/\ Cardinality(LiveEpochs(epochs)) <= 1
       /\ Cardinality(LiveEpochs(epochs')) <= 1
       /\ \A e \in DOMAIN epochs :
            e \in DOMAIN epochs' /\ (epochs[e].isCancelled => epochs'[e].isCancelled)
       /\ (\/ currentTopic' # currentTopic
           \/ currentNodeId' # currentNodeId
           \/ Len(epochs') > Len(epochs))
            => LiveEpochs(epochs') \cap DOMAIN epochs = {}
       /\ \A e \in DOMAIN epochs' \ DOMAIN epochs :
            ~epochs'[e].isCancelled => epochs'[e] = NewEpoch(epochs'[e].topic, epochs'[e].nodeId,
                                                         epochs'[e].previousTopic)
      ]_vars

\* A third epoch is live after the first two were cancelled one after the
\* other, and events of a cancelled one are still to come.
C36_ThirdEpochLive ==
    /\ Len(epochs) = 3
    /\ LiveEpochs(epochs) = {3}
    /\ epochs[3].nodeId # epochs[2].nodeId

\* C37 (eventual caching): once the content request of the current node's
\* epoch has ended well after at least one delta, and its art request has
\* ended or failed, then, unless the user acts (which cancels the epoch), the
\* node's cache comes to hold the cards and the art that are displayed.
FlowsCompleted(e) ==
    /\ e \in DOMAIN epochs
    /\ e = effectEpoch
    /\ ~epochs[e].isCancelled
    /\ epochs[e].nodeId = currentNodeId
    /\ currentNodeId # Null
    /\ currentNodeId \in DOMAIN nodes
    /\ epochs[e].content = "done"
    /\ epochs[e].sent >= 1
    /\ epochs[e].ascii \in {"done", "failed"}

CachedAsDisplayed ==
    /\ currentNodeId # Null
    /\ currentNodeId \in DOMAIN nodes
    /\ nodes[currentNodeId].cachedCards = Some(cards)
    /\ nodes[currentNodeId].cachedAsciiArt = asciiArt

C37_EventualCaching ==
    \A e \in 1..MaxEpochs :
        FlowsCompleted(e)
            ~> (CachedAsDisplayed \/ (e \in DOMAIN epochs /\ epochs[e].isCancelled))

\* C38 (chunk boundaries): whatever the reads the body arrived in, the
\* fragments yielded so far are the deltas of the frames received whole, a
\* frame that two reads delivered being yielded once; and when the generator
\* has ended they are the deltas of every frame of the body before the
\* sentinel, the last frame included when no line end follows it.
Frames(text) == SelectSeq(splitLines(text), LAMBDA line : line # <<>>)

C38_ChunkBoundaryIndependence ==
    /\ transport.state \in {"reading", "returned", "done"} =>
         transport.yielded = DeltasOf(BeforeSentinel(EndedLines(Received)))
    /\ transport.state \in {"returned", "done"} =>
         transport.yielded = DeltasOf(BeforeSentinel(Frames(transport.wire)))

====
